---- MODULE Spec2Model ----
(***************************************************************************)
(* Device Command Protocol Engine (DeviceController over                   *)
(* SerialPortService) and Test Sequence Orchestrator (TestSequenceRunner)  *)
(* of the PCB test bench.                                                  *)
(*                                                                         *)
(* The program is single threaded: every action below is one Qt event      *)
(* (a public call, a timer expiry, a readyRead notification) run to        *)
(* completion, with all signal/slot calls it makes (direct connections)    *)
(* included.  Handlers are operators from a system record                  *)
(*    s = [port, dc, tr, out, obs, ret]                                    *)
(* to the system record after the handler; an action applies one handler.  *)
(*   port : SerialPortService        dc : DeviceController                 *)
(*   tr   : TestSequenceRunner       out: signals emitted / frames written *)
(*   obs  : history of the command most recently accepted by the link      *)
(*   ret  : the boolean returned by the last DeviceController call         *)
(* and pauses counts the presses of the pause button that took effect.      *)
(* Time is in milliseconds; a timer is its remaining time, -1 if inactive. *)
(* Voltages are in hundredths of a volt.                                   *)
(***************************************************************************)
EXTENDS Integers, Sequences, FiniteSets, TLC

VARIABLES port, dc, tr, out, obs, pauses

vars == <<port, dc, tr, out, obs, pauses>>

(***************************************************************************)
(* Program constants                                                       *)
(***************************************************************************)
kSlaveAddress == 192
kConfirmationTimeoutMs == 5000
kMaxRetries == 2
kDefaultMeasurementTimeoutMs == 5000
kDefaultStepTimeoutMs == 60000
kDefaultAckTimeoutMs == 5000
kActionDelayMs == 100
kRxBufferLimit == 100

(***************************************************************************)
(* Bounds of the model                                                     *)
(***************************************************************************)
\* longest receive / telemetry buffer the environment is allowed to build
MaxBuf == 8
\* a partial advance of time, shorter than the next timer expiry
PartialTick == 2500
\* greatest number of pending deferred executeNextAction calls
MaxDispatch == 2
\* greatest number of effective pause() calls the operator makes in a run
MaxPauses == 1
\* greatest number of telemetry frames in a stream the meter sends
MaxFrames == 3
\* how far, in hundredths of a volt, the encoder's inputs reach below 0.0 V
\* and above 10.0 V
MaxOver == 60

(***************************************************************************)
(* Generic helpers                                                         *)
(***************************************************************************)
\* 0-based access, as QByteArray::operator[]
At(q, i) == q[i + 1]

\* QByteArray::mid(pos)
Mid(q, pos) == SubSeq(q, pos + 1, Len(q))

\* QByteArray::startsWith
StartsWith(q, p) == Len(q) >= Len(p) /\ SubSeq(q, 1, Len(p)) = p

IsActive(t) == t >= 0

Event(t, cmd, ok, i, j, data) ==
    [t |-> t, cmd |-> cmd, ok |-> ok, i |-> i, j |-> j, data |-> data]

Emit(s, e) == [s EXCEPT !.out = Append(@, e)]

(***************************************************************************)
(* DeviceProtocol: wire encoding                                           *)
(***************************************************************************)
\* qRound of a value given in tenths of the unit, for cv hundredths
RoundToTenths(cv) == IF cv >= 0 THEN (cv + 5) \div 10 ELSE -((5 - cv) \div 10)

\* qRound returns a 32-bit int. The rounded product is hi * 2^31 + t; a
\* product outside the int range makes the conversion undefined: the build
\* yields the "integer indefinite" value INT_MIN, a saturated value, or
\* (for the sum of two INT_MIN in the negative branch) zero.
qRoundOutcomes(hi, t) ==
    LET IntMax == 2147483647
        IntMin == -IntMax - 1
    IN  CASE hi = 0 -> {t}
          [] hi = -1 /\ t >= 1 -> {IntMin + t}
          [] hi > 0 -> {IntMin, IntMax}
          [] OTHER -> {IntMin, 0}

\* the bytes encodeVoltage can return for hi * 2^31 tenths + cv hundredths
encodeVoltageOutcomes(hi, cv) ==
    { LET t1 == IF t0 < 0 THEN 0 ELSE t0
          t  == IF t1 > 99 THEN 99 ELSE t1
      IN  16 * (t \div 10) + (t % 10) :
      t0 \in qRoundOutcomes(hi, RoundToTenths(cv)) }

encodeVoltage(cv) == CHOOSE b \in encodeVoltageOutcomes(0, cv) : TRUE

encodeV4Voltage(cv) ==
    CASE cv = 290 -> 41
      [] cv = 320 -> 50
      [] cv = 345 -> 217
      [] cv = 365 -> 219
      [] cv = 385 -> 221
      [] cv = 390 -> 57
      [] cv = 405 -> 229
      [] cv = 470 -> 71
      [] cv = 550 -> 85
      [] cv = 0   -> 0
      [] OTHER    -> encodeVoltage(cv)

\* A call of a public command method: op is the method, p1/p2 its
\* parameters (channel, voltage, action or key code), data a raw payload.
Call(op, p1, p2, data) == [op |-> op, p1 |-> p1, p2 |-> p2, data |-> data]

KeyOps == {"pressPowerConfirmKey", "pressRightKey", "pressSw3Key",
           "pressSw4Key", "pressSw5Key", "pressSw6Key"}

RelayKeyCode(op) ==
    CASE op = "pressPowerConfirmKey" -> 3
      [] op = "pressRightKey" -> 2
      [] op = "pressSw3Key" -> 49
      [] op = "pressSw4Key" -> 65
      [] op = "pressSw5Key" -> 81
      [] op = "pressSw6Key" -> 97

\* DeviceController::isValidVoltage
isValidVoltage(cv) == cv = 0 \/ (cv >= 160 /\ cv <= 1080)

\* command methods that make no parameter range check
ValidParamsUnchecked(c) == TRUE

\* the parameter range checks made by each command method
ValidParams(c) ==
    CASE c.op = "setV123VoltageControl" ->
            /\ c.p1 \in {1, 2, 3}
            /\ ~(c.p2 # 0 /\ (c.p2 < 120 \/ c.p2 > 500))
      [] c.op = "setV4VoltageControl" -> ~(c.p2 # 0 /\ ~isValidVoltage(c.p2))
      [] c.op = "v123StepAdjust" -> c.p1 \in {1, 2, 3} /\ c.p2 \in {1, 2}
      [] c.op = "v4StepAdjust" -> c.p2 \in {1, 2}
      [] c.op = "openVoltageChannel" -> c.p1 \in {1, 2, 3} /\ c.p2 = 4
      [] c.op = "openV123Channel" -> c.p1 \in {1, 2, 3}
      [] OTHER -> TRUE

\* the DATA bytes each command method builds (DeviceProtocol::build*)
Payload(c) ==
    CASE c.op = "powerOn" -> <<1, 1>>
      [] c.op = "powerOff" -> <<1, 0>>
      [] c.op = "setV123VoltageControl" -> <<2, c.p1, encodeVoltage(c.p2)>>
      [] c.op = "setV4VoltageControl" -> <<2, 4, encodeV4Voltage(c.p2)>>
      [] c.op = "v123StepAdjust" -> <<6, c.p1, c.p2>>
      [] c.op = "v4StepAdjust" -> <<6, 4, c.p2>>
      [] c.op = "openVoltageChannel" -> <<18, c.p1, c.p2>>
      [] c.op = "openV123Channel" -> <<18, c.p1>>
      [] c.op = "openV4Channel" -> <<18, 4>>
      [] c.op = "sendTestCommand" -> IF c.data = <<>> THEN <<52, 52>> ELSE c.data
      [] c.op = "startExternalMeterDetection" -> <<80>>
      [] c.op = "stopExternalMeterDetection" -> <<81>>
      [] c.op \in KeyOps -> <<1, RelayKeyCode(c.op)>>

\* every command armed with its own payload as expected response
ExpectedEcho(c) == Payload(c)

\* the expected response each command method arms
Expected(c) ==
    CASE c.op = "startExternalMeterDetection" -> <<80, 170>>
      [] c.op = "stopExternalMeterDetection" -> <<81, 85>>
      [] OTHER -> Payload(c)

\* the Command enumerator each command method registers as pending
CommandOf(c) ==
    CASE c.op = "powerOn" -> "PowerOn"
      [] c.op = "powerOff" -> "PowerOff"
      [] c.op = "setV123VoltageControl" -> "V123VoltageControl"
      [] c.op = "setV4VoltageControl" -> "V4VoltageControl"
      [] c.op = "v123StepAdjust" -> "StepAdjust"
      [] c.op = "v4StepAdjust" -> "StepAdjust"
      [] c.op = "openVoltageChannel" -> "VoltageChannelOpen"
      [] c.op = "openV123Channel" -> "V123ChannelOpen"
      [] c.op = "openV4Channel" -> "V4ChannelOpen"
      [] c.op = "sendTestCommand" -> "TestCommand"
      [] c.op = "startExternalMeterDetection" -> "StartDetection"
      [] c.op = "stopExternalMeterDetection" -> "StopExternalMeter"
      [] c.op = "pressPowerConfirmKey" -> "RelayPowerConfirm"
      [] c.op = "pressRightKey" -> "RelayRight"
      [] c.op = "pressSw3Key" -> "RelaySw3"
      [] c.op = "pressSw4Key" -> "RelaySw4"
      [] c.op = "pressSw5Key" -> "RelaySw5"
      [] c.op = "pressSw6Key" -> "RelaySw6"

(***************************************************************************)
(* SerialPortService                                                       *)
(***************************************************************************)
\* outcome of one address+data write: both written, the address byte not
\* written or flushed in time, the data bytes not written or flushed in time
WriteOutcomes == {"ok", "addrFail", "dataFail"}

PortIsOpen(s) == s.port.m_isOpen

writeAddressByte(s, address, w) ==
    IF ~PortIsOpen(s) THEN [s EXCEPT !.ret = FALSE]
    ELSE IF w = "addrFail"
         THEN Emit([s EXCEPT !.port.parity = "Mark", !.ret = FALSE],
                   Event("tx", "address", FALSE, 0, 0, <<address>>))
         ELSE Emit([s EXCEPT !.port.parity = "Space", !.ret = TRUE],
                   Event("tx", "address", TRUE, 0, 0, <<address>>))

writeData(s, data, w) ==
    IF ~PortIsOpen(s) \/ data = <<>> THEN [s EXCEPT !.ret = FALSE]
    ELSE IF w = "dataFail"
         THEN Emit([s EXCEPT !.port.parity = "Space", !.ret = FALSE],
                   Event("tx", "data", FALSE, 0, 0, data))
         ELSE Emit([s EXCEPT !.port.parity = "Space", !.ret = TRUE],
                   Event("tx", "data", TRUE, 0, 0, data))

(***************************************************************************)
(* DeviceController: the Command Link                                      *)
(***************************************************************************)
isConnected(s) == s.dc.m_isConnected /\ PortIsOpen(s)

\* the pending test left out of a command method
LinkIdleUnchecked(s) == TRUE

\* the "is another command awaiting confirmation" test of every command
LinkIdle(s) == s.dc.m_pendingCommand = "None"

sendAddressAndData(s, data, w) ==
    IF ~PortIsOpen(s) THEN [s EXCEPT !.ret = FALSE]
    ELSE LET s1 == writeAddressByte(s, kSlaveAddress, w)
         IN  IF ~s1.ret THEN s1 ELSE writeData(s1, data, w)

\* cancelCommandConfirmation that leaves the confirmation timer running
cancelKeepingTimer(s) ==
    IF s.dc.m_pendingCommand # "None"
    THEN [s EXCEPT !.dc.m_pendingCommand = "None",
                   !.dc.m_sentData = <<>>,
                   !.dc.m_expectedResponse = <<>>,
                   !.dc.m_receivedBuffer = <<>>,
                   !.dc.m_retryCount = 0]
    ELSE s

cancelCommandConfirmation(s) ==
    IF s.dc.m_pendingCommand # "None"
    THEN [s EXCEPT !.dc.confTimer = -1,
                   !.dc.m_pendingCommand = "None",
                   !.dc.m_sentData = <<>>,
                   !.dc.m_expectedResponse = <<>>,
                   !.dc.m_receivedBuffer = <<>>,
                   !.dc.m_retryCount = 0]
    ELSE s

\* the data bytes of the last write made
LastWritten(s) == s.out[Len(s.out)].data

startCommandConfirmation(s, command, sentData, expectedResponse) ==
    LET s1 == cancelCommandConfirmation(s)
    IN  [s1 EXCEPT !.dc.m_pendingCommand = command,
                   !.dc.m_sentData = sentData,
                   !.dc.m_expectedResponse = expectedResponse,
                   !.dc.m_receivedBuffer = <<>>,
                   !.dc.m_retryCount = 0,
                   !.dc.confTimer = kConfirmationTimeoutMs,
                   !.obs = [txLog |-> <<LastWritten(s)>>, expiries |-> 0,
                            resolved |-> 0, cancelled |-> FALSE,
                            late |-> FALSE, resendFailed |-> FALSE]]

\* one public command method, c one of the calls above, w the outcome of
\* the write it may make
Command(s, c, w) ==
    IF ~isConnected(s) THEN [s EXCEPT !.ret = FALSE]
    ELSE IF ~ValidParams(c) THEN [s EXCEPT !.ret = FALSE]
    ELSE IF ~LinkIdle(s) THEN [s EXCEPT !.ret = FALSE]
    ELSE LET s1 == IF c.op = "startExternalMeterDetection"
                   THEN [s EXCEPT !.dc.m_measureDataBuffer = <<>>]
                   ELSE s
             s2 == sendAddressAndData(s1, Payload(c), w)
         IN  IF s2.ret
             THEN [startCommandConfirmation(s2, CommandOf(c), Payload(c),
                                            Expected(c))
                       EXCEPT !.ret = TRUE]
             ELSE s2

\* IAP jump: sent without confirmation and without the pending check
sendIapJumpCommand(s, w) ==
    IF ~isConnected(s) THEN [s EXCEPT !.ret = FALSE]
    ELSE sendAddressAndData(s, <<153, 170>>, w)

\* a call of a command method by a client of the DeviceController (i = 1:
\* the TestSequenceRunner, i = 0: the operator console), recorded with
\* whether the link was idle at the call and with the value returned
invoke(s, c, w, client) ==
    LET s1 == Emit(s, Event("call", c.op, LinkIdle(s), client, 0, <<>>))
        s2 == Command(s1, c, w)
    IN  Emit(s2, Event("return", c.op, s2.ret, client, 0, <<>>))

(***************************************************************************)
(* ProtocolParser                                                          *)
(***************************************************************************)
\* index of the first occurrence of byte e in q (0-based), -1 if none
FirstIndexOf(q, e) ==
    IF \E i \in 0..(Len(q) - 1) : At(q, i) = e
    THEN CHOOSE i \in 0..(Len(q) - 1) :
            At(q, i) = e /\ \A k \in 0..(i - 1) : At(q, k) # e
    ELSE -1

\* index of the first occurrence of p as a contiguous run in q, -1 if none
FirstRunOf(q, p) ==
    LET Hit(i) == \A j \in 0..(Len(p) - 1) : At(q, i + j) = At(p, j)
        Cand == {i \in 0..(Len(q) - Len(p)) : Hit(i)}
    IN  IF Cand = {} THEN -1
        ELSE CHOOSE i \in Cand : \A k \in Cand : i <= k

checkResponseMatch(receivedData, expectedResponse) ==
    IF expectedResponse = <<>> \/ Len(receivedData) < Len(expectedResponse)
    THEN FALSE
    ELSE IF Len(expectedResponse) = 2 /\ At(expectedResponse, 0) = 170
            /\ At(expectedResponse, 1) = 85
    THEN \E i \in 0..(Len(receivedData) - 2) :
            At(receivedData, i) = 170 /\ At(receivedData, i + 1) = 85
    ELSE IF Len(expectedResponse) = 1
    THEN LET expectedByte == At(expectedResponse, 0)
             matchPos == FirstIndexOf(receivedData, expectedByte)
         IN  IF matchPos < 0 THEN FALSE
             ELSE IF expectedByte = 5 THEN TRUE
             ELSE IF expectedByte = 170 THEN TRUE
             ELSE IF matchPos >= 5 /\ At(receivedData, matchPos - 5) = 19
                  THEN TRUE
             ELSE IF matchPos = 0 THEN TRUE
             ELSE IF matchPos > 0 /\ matchPos < 5
                  THEN ~\E i \in 0..(matchPos - 1) : At(receivedData, i) = 19
             ELSE ~\E i \in (matchPos - 4)..(matchPos - 1) :
                      At(receivedData, i) = 19
    ELSE StartsWith(receivedData, expectedResponse)

\* memcpy of 4 little-endian bytes into an IEEE-754 float.  The value is
\* kept exactly as sign, integer part and "has a fractional part";
\* magnitudes of 2^30 and above are kept as 2^30.
HugeMagnitude == 1073741824

Pow2(n) == IF n = 0 THEN 1 ELSE IF n = 1 THEN 2 ELSE IF n = 2 THEN 4
           ELSE IF n = 3 THEN 8 ELSE IF n = 4 THEN 16 ELSE IF n = 5 THEN 32
           ELSE IF n = 6 THEN 64 ELSE IF n = 7 THEN 128 ELSE IF n = 8 THEN 256
           ELSE IF n <= 16 THEN 256 * (IF n = 9 THEN 2 ELSE IF n = 10 THEN 4
                ELSE IF n = 11 THEN 8 ELSE IF n = 12 THEN 16
                ELSE IF n = 13 THEN 32 ELSE IF n = 14 THEN 64
                ELSE IF n = 15 THEN 128 ELSE 256)
           ELSE 65536 * (IF n = 17 THEN 2 ELSE IF n = 18 THEN 4
                ELSE IF n = 19 THEN 8 ELSE IF n = 20 THEN 16
                ELSE IF n = 21 THEN 32 ELSE IF n = 22 THEN 64
                ELSE IF n = 23 THEN 128 ELSE 256)

DecodeFloat(b) ==
    LET neg  == At(b, 3) >= 128
        e    == (At(b, 3) % 128) * 2 + (At(b, 2) \div 128)
        m    == (At(b, 2) % 128) * 65536 + At(b, 1) * 256 + At(b, 0)
        M    == 8388608 + m
        k    == e - 150
    IN  IF e = 255
        THEN [nan |-> m # 0, neg |-> neg, ip |-> HugeMagnitude, fr |-> FALSE]
        ELSE IF e = 0
        THEN [nan |-> FALSE, neg |-> neg, ip |-> 0, fr |-> m # 0]
        ELSE IF k >= 0
        THEN [nan |-> FALSE, neg |-> neg,
              ip |-> IF k > 6 THEN HugeMagnitude ELSE M * Pow2(k),
              fr |-> FALSE]
        ELSE IF -k > 24
        THEN [nan |-> FALSE, neg |-> neg, ip |-> 0, fr |-> TRUE]
        ELSE [nan |-> FALSE, neg |-> neg, ip |-> M \div Pow2(-k),
              fr |-> (M % Pow2(-k)) # 0]

\* value < threshold taken for value <= threshold
FloatLeqStrict(v, th) ==
    IF v.nan THEN FALSE
    ELSE IF v.neg THEN (IF th >= 0 THEN TRUE ELSE v.ip > -th)
    ELSE v.ip < th

\* value <= threshold and value >= threshold for an integer threshold
FloatLeq(v, th) ==
    IF v.nan THEN FALSE
    ELSE IF v.neg THEN (IF th >= 0 THEN TRUE ELSE v.ip >= -th)
    ELSE v.ip < th \/ (v.ip = th /\ ~v.fr)

FloatGeq(v, th) ==
    IF v.nan THEN FALSE
    ELSE IF v.neg THEN (-th > v.ip \/ (v.ip = -th /\ ~v.fr))
    ELSE v.ip >= th

\* one call of parseExternalMeasurementWithHeader: the buffer afterwards
\* and whether a frame was parsed (then its value)
\* a frame parser that takes the value and leaves one byte too many
parseLeavingOneByte(buffer) ==
    IF Len(buffer) < 5
    THEN [ok |-> FALSE, buffer |-> buffer, value |-> <<>>]
    ELSE IF At(buffer, 0) # 80
    THEN [ok |-> FALSE, buffer |-> Mid(buffer, 1), value |-> <<>>]
    ELSE [ok |-> TRUE, buffer |-> Mid(buffer, 4),
          value |-> SubSeq(buffer, 2, 5)]

parseExternalMeasurementWithHeader(buffer) ==
    IF Len(buffer) < 5
    THEN [ok |-> FALSE, buffer |-> buffer, value |-> <<>>]
    ELSE IF At(buffer, 0) # 80
    THEN [ok |-> FALSE, buffer |-> Mid(buffer, 1), value |-> <<>>]
    ELSE [ok |-> TRUE, buffer |-> Mid(buffer, 5),
          value |-> SubSeq(buffer, 2, 5)]

(***************************************************************************)
(* TestSequenceRunner: internals and slots                                 *)
(***************************************************************************)
setState(s, newState) ==
    IF s.tr.m_state # newState
    THEN Emit([s EXCEPT !.tr.m_state = newState],
              Event("stateChanged", newState, TRUE, 0, 0, <<>>))
    ELSE s

\* QTimer::singleShot(ms, this, &TestSequenceRunner::executeNextAction)
singleShot(s, ms) == [s EXCEPT !.tr.dispatch = Append(@, ms)]

\* the float -1.0 that stands for "no measurement" in an ErrorRecord
NoValue == [nan |-> FALSE, neg |-> TRUE, ip |-> 1, fr |-> FALSE]

\* recordError(actionDesc, errorType, errorDetail, measuredValue, thresholdValue)
recordErrorValues(s, errorType, measuredValue, thresholdValue) ==
    [s EXCEPT !.tr.m_errorRecords =
        Append(@, [stepIndex |-> s.tr.m_currentStepIndex,
                   actionIndex |-> s.tr.m_currentActionIndex,
                   errorType |-> errorType,
                   measuredValue |-> measuredValue,
                   thresholdValue |-> thresholdValue])]

\* recordError with the default measuredValue = -1.0, thresholdValue = -1.0
recordError(s, errorType) == recordErrorValues(s, errorType, NoValue, -1)

\* a tally that counts every step as passed
finishSequenceAllPassed(s) ==
    LET s1 == [s EXCEPT !.tr.delayTimer = -1, !.tr.measurementTimer = -1,
                        !.tr.stepTimer = -1, !.tr.ackTimer = -1]
        totalCount == Len(s.tr.m_steps)
    IN  Emit(setState(s1, "Finished"),
             Event("sequenceFinished", "", TRUE, totalCount, totalCount, <<>>))

finishSequence(s) ==
    LET s1 == [s EXCEPT !.tr.delayTimer = -1, !.tr.measurementTimer = -1,
                        !.tr.stepTimer = -1, !.tr.ackTimer = -1]
        passedCount == Cardinality({i \in 1..Len(s.tr.m_stepResults) :
                                       s.tr.m_stepResults[i]})
        totalCount == Len(s.tr.m_steps)
    IN  Emit(setState(s1, "Finished"),
             Event("sequenceFinished", "", passedCount = totalCount,
                   passedCount, totalCount, <<>>))

advanceToNextStep(s) ==
    LET s1 == [s EXCEPT !.tr.stepTimer = -1,
                        !.tr.m_currentStepIndex = @ + 1,
                        !.tr.m_currentActionIndex = -1]
    IN  IF s1.tr.m_currentStepIndex >= Len(s1.tr.m_steps)
        THEN finishSequence(s1)
        ELSE LET s2 == setState(s1, "Running")
                 step == s2.tr.m_steps[s2.tr.m_currentStepIndex + 1]
                 s3 == Emit(s2, Event("stepStarted", "", TRUE,
                                      s2.tr.m_currentStepIndex, 0, <<>>))
                 s4 == [s3 EXCEPT !.tr.stepTimer =
                            IF step.stepTimeoutMs > 0 THEN step.stepTimeoutMs
                            ELSE kDefaultStepTimeoutMs]
             IN  singleShot(s4, kActionDelayMs)

\* a failed step that ends the sequence instead of advancing
finishCurrentStepHalting(s, success) ==
    LET s1 == Emit([s EXCEPT !.tr.stepTimer = -1],
                   Event("stepFinished", "", success,
                         s.tr.m_currentStepIndex, 0, <<>>))
    IN  IF success THEN advanceToNextStep(s1) ELSE finishSequence(s1)

finishCurrentStep(s, success) ==
    LET idx == s.tr.m_currentStepIndex
        s1 == [s EXCEPT !.tr.stepTimer = -1]
        s2 == IF idx >= 0 /\ idx < Len(s1.tr.m_stepResults)
              THEN [s1 EXCEPT !.tr.m_stepResults[idx + 1] = success]
              ELSE s1
        s3 == Emit(s2, Event("stepFinished", "", success, idx, 0, <<>>))
    IN  advanceToNextStep(s3)

actionFinished(s, result) ==
    Emit(s, Event("actionFinished", result, result = "Success",
                  s.tr.m_currentStepIndex, s.tr.m_currentActionIndex, <<>>))

\* a confirmation slot that takes a resolution in any state as the answer to
\* the current action
onCommandConfirmedAnyState(s, command, success) ==
    IF s.tr.m_state = "WaitingForPauseAck"
    THEN setState([s EXCEPT !.tr.ackTimer = -1], "Paused")
    ELSE LET s1 == [s EXCEPT !.tr.ackTimer = -1]
         IN  IF success
             THEN singleShot(setState(actionFinished(s1, "Success"),
                                      "Running"), kActionDelayMs)
             ELSE finishCurrentStep(
                      actionFinished(recordError(s1, "ConfirmFailed"),
                                     "Failed"), FALSE)

\* slot connected to DeviceController::commandConfirmed
onCommandConfirmed(s, command, success) ==
    IF s.tr.m_state = "WaitingForPauseAck"
    THEN setState([s EXCEPT !.tr.ackTimer = -1], "Paused")
    ELSE IF s.tr.m_state # "WaitingForAck" THEN s
    ELSE LET s1 == [s EXCEPT !.tr.ackTimer = -1]
         IN  IF success
             THEN singleShot(setState(actionFinished(s1, "Success"),
                                      "Running"), kActionDelayMs)
             ELSE LET s2 == IF command = "StartDetection"
                            THEN [s1 EXCEPT !.tr.m_isDetectionActive = FALSE]
                            ELSE s1
                      s3 == recordError(s2, "ConfirmFailed")
                  IN  finishCurrentStep(actionFinished(s3, "Failed"), FALSE)

\* lambda connected to DeviceController::externalMeasurementReceived
onExternalMeasurement(s, bytes) ==
    IF ~s.tr.m_waitingForMeasurement
       \/ s.tr.m_state # "WaitingForMeasurement"
    THEN s
    ELSE LET value == DecodeFloat(bytes)
             s1 == [s EXCEPT !.tr.measurementTimer = -1,
                             !.tr.m_waitingForMeasurement = FALSE]
             passed == IF s.tr.m_pendingIsUpperLimit
                       THEN FloatLeq(value, s.tr.m_pendingCurrentThreshold)
                       ELSE FloatGeq(value, s.tr.m_pendingCurrentThreshold)
             s2 == Emit(s1, Event("currentCheckResult", "", passed,
                                  s.tr.m_currentStepIndex, 0, bytes))
             s3 == actionFinished(s2, IF passed THEN "Success" ELSE "Failed")
         IN  IF passed
             THEN singleShot(setState(s3, "Running"), kActionDelayMs)
             ELSE finishCurrentStep(
                      recordErrorValues(s3, "CurrentOutOfRange", value,
                                        s.tr.m_pendingCurrentThreshold),
                      FALSE)

(***************************************************************************)
(* DeviceController: resolution and event handlers                         *)
(***************************************************************************)
\* emit commandConfirmed(command, success, ...): the history of the command
\* and then every connected slot
emitCommandConfirmed(s, command, success) ==
    LET s1 == [s EXCEPT !.obs.resolved = @ + 1,
                        !.obs.late = @ \/ s.obs.cancelled]
        s2 == Emit(s1, Event("commandConfirmed", command, success, 0, 0, <<>>))
    IN  onCommandConfirmed(s2, command, success)

\* a success handler that leaves the confirmation state in place
handleSuccessKeepPending(s, responseData) ==
    emitCommandConfirmed(s, s.dc.m_pendingCommand, TRUE)

handleCommandConfirmationSuccess(s, responseData) ==
    LET command == s.dc.m_pendingCommand
    IN  emitCommandConfirmed(cancelCommandConfirmation(s), command, TRUE)

handleCommandConfirmationFailure(s) ==
    LET command == s.dc.m_pendingCommand
    IN  emitCommandConfirmed(cancelCommandConfirmation(s), command, FALSE)

\* the loop  while (parseExternalMeasurementWithHeader(buf, v)) emit ...
RECURSIVE parseMeasurements(_)
parseMeasurements(s) ==
    LET r == parseExternalMeasurementWithHeader(s.dc.m_measureDataBuffer)
        s1 == [s EXCEPT !.dc.m_measureDataBuffer = r.buffer]
    IN  IF ~r.ok THEN s1
        ELSE parseMeasurements(
                onExternalMeasurement(
                    Emit(s1, Event("externalMeasurementReceived", "", TRUE,
                                   0, 0, r.value)),
                    r.value))

\* position at which onSerialDataReceived takes the confirmation out of
\* the receive buffer
matchPosition(receivedBuffer, expectedResponse) ==
    IF Len(expectedResponse) = 1
    THEN FirstIndexOf(receivedBuffer, At(expectedResponse, 0))
    ELSE FirstRunOf(receivedBuffer, expectedResponse)

\* the clean-up of a receive buffer that grew beyond the limit
trimReceiveBuffer(q) ==
    IF Len(q) > kRxBufferLimit
    THEN LET Starts == {i \in 0..(Len(q) - 1) :
                            At(q, i) \in {1, 2, 3, 4, 18, 80}}
             lastPossibleStart ==
                 IF Starts = {} THEN -1
                 ELSE CHOOSE i \in Starts : \A k \in Starts : k <= i
         IN  IF lastPossibleStart > 0 THEN Mid(q, lastPossibleStart)
             ELSE <<>>
    ELSE q

onSerialDataReceived(s, data) ==
    IF s.dc.m_pendingCommand # "None"
    THEN LET buf == s.dc.m_receivedBuffer \o data
             exp == s.dc.m_expectedResponse
             s1 == [s EXCEPT !.dc.m_receivedBuffer = buf]
             matchPos == matchPosition(buf, exp)
         IN  IF checkResponseMatch(buf, exp) /\ matchPos >= 0
             THEN LET afterMatchPos == matchPos + Len(exp)
                      remainingData == IF afterMatchPos < Len(buf)
                                       THEN Mid(buf, afterMatchPos)
                                       ELSE <<>>
                      s2 == [s1 EXCEPT !.dc.m_receivedBuffer = <<>>]
                      s3 == handleCommandConfirmationSuccess(s2,
                               SubSeq(buf, matchPos + 1, afterMatchPos))
                  IN  IF remainingData # <<>>
                      THEN parseMeasurements(
                             [s3 EXCEPT !.dc.m_measureDataBuffer =
                                            @ \o remainingData])
                      ELSE s3
             ELSE [s1 EXCEPT !.dc.m_receivedBuffer = trimReceiveBuffer(buf)]
    ELSE parseMeasurements([s EXCEPT !.dc.m_measureDataBuffer = @ \o data])

\* a retry bound that lets one retransmission too many through
retriesRemainInclusive(s) == s.dc.m_retryCount <= kMaxRetries

retriesRemain(s) == s.dc.m_retryCount < kMaxRetries

\* a retransmission that does not start the confirmation timer again
afterResendUnarmed(s2) ==
    IF s2.ret
    THEN [s2 EXCEPT !.obs.txLog = Append(@, LastWritten(s2))]
    ELSE handleCommandConfirmationFailure(
             [s2 EXCEPT !.obs.resendFailed = TRUE])

\* the outcome of the retransmission: s2 is the state after the write
afterResend(s2) ==
    IF s2.ret
    THEN [s2 EXCEPT !.dc.confTimer = kConfirmationTimeoutMs,
                    !.obs.txLog = Append(@, LastWritten(s2))]
    ELSE handleCommandConfirmationFailure(
             [s2 EXCEPT !.obs.resendFailed = TRUE])

resend(s1, w) == afterResend(sendAddressAndData(s1, s1.dc.m_sentData, w))

onCommandConfirmationTimeout(s, w) ==
    IF retriesRemain(s)
    THEN resend([s EXCEPT !.dc.confTimer = -1, !.obs.expiries = @ + 1,
                          !.dc.m_retryCount = @ + 1], w)
    ELSE handleCommandConfirmationFailure(
             [s EXCEPT !.dc.confTimer = -1, !.obs.expiries = @ + 1])

\* cancelCommandConfirmation as reached from outside the resolution path
silentCancel(s) ==
    IF s.dc.m_pendingCommand # "None"
    THEN [cancelCommandConfirmation(s) EXCEPT !.obs.cancelled = TRUE]
    ELSE s

cancelPendingCommand(s) ==
    IF s.dc.m_pendingCommand # "None" THEN silentCancel(s) ELSE s

onPortStatusChanged(s, isOpen) ==
    IF ~isOpen /\ s.dc.m_isConnected
    THEN Emit([silentCancel(s) EXCEPT !.dc.m_isConnected = FALSE],
              Event("connectionStatusChanged", "", FALSE, 0, 0, <<>>))
    ELSE s

\* SerialPortService::closePort, with the slot of portStatusChanged(false)
closePort(s) ==
    IF s.port.m_isOpen
    THEN onPortStatusChanged([s EXCEPT !.port.m_isOpen = FALSE,
                                       !.port.rx = <<>>], FALSE)
    ELSE s

disconnectDevice(s) ==
    IF s.dc.m_isConnected
    THEN Emit([closePort(s) EXCEPT !.dc.m_isConnected = FALSE],
              Event("connectionStatusChanged", "", FALSE, 0, 0, <<>>))
    ELSE s

\* SerialPortService::openPort succeeding, from connectToDevice
connectToDevice(s) ==
    LET s1 == IF s.dc.m_isConnected THEN disconnectDevice(s) ELSE s
        s2 == [closePort(s1) EXCEPT !.port.m_isOpen = TRUE,
                                    !.port.parity = "Space"]
    IN  Emit([s2 EXCEPT !.dc.m_isConnected = TRUE],
             Event("connectionStatusChanged", "", TRUE, 0, 0, <<>>))

(***************************************************************************)
(* TestSequenceRunner: actions of a step                                   *)
(***************************************************************************)
isRunning(s) ==
    s.tr.m_state \in {"Running", "WaitingForUser", "WaitingForMeasurement",
                      "WaitingForAck", "WaitingForPauseAck"}

\* a SubAction: p1/p2 are the channel and voltage (SetV1Voltage,
\* SetV4Voltage, OpenV1Channel, OpenChannel), the key code (PressKey), the
\* delay (Delay), the threshold in mA (CheckCurrent); flag is isUpperLimit
SubAction(type, p1, p2, flag) ==
    [type |-> type, p1 |-> p1, p2 |-> p2, flag |-> flag]

StepSpec(actions, stepTimeoutMs) ==
    [actions |-> actions, stepTimeoutMs |-> stepTimeoutMs]

\* the tail shared by the device-facing execute* methods: s is the state
\* after the DeviceController call; ret becomes "completed immediately"
enterWaitingForAck(s) ==
    IF ~s.ret THEN [s EXCEPT !.ret = TRUE]
    ELSE [setState(s, "WaitingForAck") EXCEPT
              !.tr.ackTimer = kDefaultAckTimeoutMs, !.ret = FALSE]

executeSetV1Voltage(s, action, w) ==
    enterWaitingForAck(
        invoke(s, Call("setV123VoltageControl", action.p1, action.p2, <<>>), w, 1))

executeSetV4Voltage(s, action, w) ==
    enterWaitingForAck(
        invoke(s, Call("setV4VoltageControl", 0, action.p2, <<>>), w, 1))

executeOpenV1Channel(s, action, w) ==
    enterWaitingForAck(
        invoke(s, Call("openV123Channel", action.p1, 0, <<>>), w, 1))

executeOpenV4Channel(s, w) ==
    enterWaitingForAck(invoke(s, Call("openV4Channel", 0, 0, <<>>), w, 1))

executeOpenChannel(s, action, w) ==
    enterWaitingForAck(
        invoke(s, Call("openVoltageChannel", action.p1, action.p2, <<>>), w, 1))

executeStartDetection(s, w) ==
    LET s1 == invoke(s, Call("startExternalMeterDetection", 0, 0, <<>>), w, 1)
    IN  IF ~s1.ret THEN [s1 EXCEPT !.ret = TRUE]
        ELSE enterWaitingForAck([s1 EXCEPT !.tr.m_isDetectionActive = TRUE])

executePauseDetection(s, w) ==
    LET s1 == invoke(s, Call("stopExternalMeterDetection", 0, 0, <<>>), w, 1)
    IN  IF ~s1.ret THEN [s1 EXCEPT !.ret = TRUE]
        ELSE enterWaitingForAck([s1 EXCEPT !.tr.m_isDetectionActive = FALSE])

KeyOpOf(key) ==
    CASE key = 3 -> "pressPowerConfirmKey"
      [] key = 2 -> "pressRightKey"
      [] key = 49 -> "pressSw3Key"
      [] key = 65 -> "pressSw4Key"
      [] key = 81 -> "pressSw5Key"
      [] key = 97 -> "pressSw6Key"
      [] OTHER -> "none"

executePressKey(s, action, w) ==
    IF KeyOpOf(action.p1) = "none" THEN [s EXCEPT !.ret = TRUE]
    ELSE enterWaitingForAck(invoke(s, Call(KeyOpOf(action.p1), 0, 0, <<>>), w, 1))

executeDelay(s, action) ==
    [s EXCEPT !.tr.delayTimer = action.p1, !.ret = FALSE]

executeUserConfirm(s, action) ==
    [Emit(setState(s, "WaitingForUser"),
          Event("userConfirmRequired", "", TRUE, 0, 0, <<>>))
        EXCEPT !.ret = FALSE]

executeCheckCurrent(s, action) ==
    LET s1 == [s EXCEPT !.tr.m_pendingCurrentThreshold = action.p1,
                        !.tr.m_pendingIsUpperLimit = action.flag,
                        !.tr.m_waitingForMeasurement = TRUE]
    IN  [setState(s1, "WaitingForMeasurement") EXCEPT
            !.tr.measurementTimer = kDefaultMeasurementTimeoutMs,
            !.ret = FALSE]

executeAction(s, action, w) ==
    CASE action.type = "SetV1Voltage" -> executeSetV1Voltage(s, action, w)
      [] action.type = "SetV4Voltage" -> executeSetV4Voltage(s, action, w)
      [] action.type = "OpenV1Channel" -> executeOpenV1Channel(s, action, w)
      [] action.type = "OpenV4Channel" -> executeOpenV4Channel(s, w)
      [] action.type = "StartDetection" -> executeStartDetection(s, w)
      [] action.type = "PauseDetection" -> executePauseDetection(s, w)
      [] action.type = "CheckCurrent" -> executeCheckCurrent(s, action)
      [] action.type = "PressKey" -> executePressKey(s, action, w)
      [] action.type = "Delay" -> executeDelay(s, action)
      [] action.type = "UserConfirm" -> executeUserConfirm(s, action)
      [] action.type = "OpenChannel" -> executeOpenChannel(s, action, w)
      [] OTHER -> [s EXCEPT !.ret = TRUE]

executeNextAction(s, w) ==
    IF s.tr.m_state # "Running" THEN s
    ELSE LET s1 == [s EXCEPT !.tr.m_currentActionIndex = @ + 1]
         IN  IF s1.tr.m_currentStepIndex >= Len(s1.tr.m_steps)
             THEN finishSequence(s1)
             ELSE LET currentStep == s1.tr.m_steps[s1.tr.m_currentStepIndex + 1]
                  IN  IF s1.tr.m_currentActionIndex >= Len(currentStep.actions)
                      THEN finishCurrentStep(s1, TRUE)
                      ELSE LET action == currentStep.actions[
                                             s1.tr.m_currentActionIndex + 1]
                               s2 == Emit(s1, Event("actionStarted", action.type,
                                            TRUE, s1.tr.m_currentStepIndex,
                                            s1.tr.m_currentActionIndex, <<>>))
                               s3 == executeAction(s2, action, w)
                           IN  IF s3.ret
                               THEN singleShot(actionFinished(s3, "Success"),
                                               kActionDelayMs)
                               ELSE s3

(***************************************************************************)
(* TestSequenceRunner: public slots and timer slots                        *)
(***************************************************************************)
loadSteps(s, steps) ==
    IF isRunning(s) THEN s
    ELSE [s EXCEPT !.tr.m_steps = steps,
                   !.tr.m_stepResults = [i \in 1..Len(steps) |-> FALSE]]

\* a start() that does not look at the state of the runner
startUnguarded(s) ==
    IF s.tr.m_steps = <<>> THEN s
    ELSE LET s1 == [s EXCEPT
                     !.tr.m_currentStepIndex = 0,
                     !.tr.m_currentActionIndex = -1,
                     !.tr.m_stepResults = [i \in 1..Len(@) |-> FALSE],
                     !.tr.m_errorRecords = <<>>,
                     !.tr.m_isDetectionActive = FALSE]
             s2 == setState(s1, "Running")
             step == s2.tr.m_steps[1]
             s3 == Emit(s2, Event("stepStarted", "", TRUE, 0, 0, <<>>))
             s4 == [s3 EXCEPT !.tr.stepTimer =
                        IF step.stepTimeoutMs > 0 THEN step.stepTimeoutMs
                        ELSE kDefaultStepTimeoutMs]
         IN  singleShot(s4, 0)

start(s) ==
    IF s.tr.m_steps = <<>> THEN s
    ELSE IF isRunning(s) THEN s
    ELSE LET s1 == [s EXCEPT
                     !.tr.m_currentStepIndex = 0,
                     !.tr.m_currentActionIndex = -1,
                     !.tr.m_stepResults = [i \in 1..Len(@) |-> FALSE],
                     !.tr.m_errorRecords = <<>>,
                     !.tr.m_isDetectionActive = FALSE]
             s2 == setState(s1, "Running")
             step == s2.tr.m_steps[1]
             s3 == Emit(s2, Event("stepStarted", "", TRUE, 0, 0, <<>>))
             s4 == [s3 EXCEPT !.tr.stepTimer =
                        IF step.stepTimeoutMs > 0 THEN step.stepTimeoutMs
                        ELSE kDefaultStepTimeoutMs]
         IN  singleShot(s4, 0)

\* remainingTime() and stop() of each timer, as pause() stores them
bankTimers(s) ==
    [s EXCEPT
       !.tr.m_remainingStepTime =
            IF IsActive(s.tr.stepTimer) THEN s.tr.stepTimer ELSE 0,
       !.tr.stepTimer = -1,
       !.tr.m_remainingDelayTime =
            IF IsActive(s.tr.delayTimer) THEN s.tr.delayTimer ELSE 0,
       !.tr.delayTimer = -1,
       !.tr.m_remainingMeasurementTime =
            IF IsActive(s.tr.measurementTimer) THEN s.tr.measurementTimer ELSE 0,
       !.tr.measurementTimer = -1,
       !.tr.m_remainingAckTime =
            IF IsActive(s.tr.ackTimer) THEN s.tr.ackTimer ELSE 0,
       !.tr.ackTimer = -1]

\* a pause that does not wait for the stop-detection confirmation
pauseAfterStopForced(s3) == setState(s3, "Paused")

\* s3 is the state after pause()'s stopExternalMeterDetection call
pauseAfterStop(s3) ==
    IF s3.ret
    THEN [setState(s3, "WaitingForPauseAck") EXCEPT
              !.tr.ackTimer = kDefaultAckTimeoutMs]
    ELSE setState(s3, "Paused")

\* s1 is the state with the timers banked
pauseBanked(s1, w) ==
    IF s1.tr.m_isDetectionActive
    THEN pauseAfterStop(
             invoke([s1 EXCEPT !.tr.m_waitingForMeasurement = FALSE],
                    Call("stopExternalMeterDetection", 0, 0, <<>>), w, 1))
    ELSE setState(s1, "Paused")

pause(s, w) ==
    IF s.tr.m_state \notin {"Running", "WaitingForMeasurement", "WaitingForAck"}
    THEN s
    ELSE pauseBanked(bankTimers([s EXCEPT !.tr.m_prePauseState = s.tr.m_state]),
                     w)

\* the timers restarted with the time banked by pause()
resumeTimers(s2) ==
    [s2 EXCEPT
       !.tr.stepTimer = IF s2.tr.m_remainingStepTime > 0
                        THEN s2.tr.m_remainingStepTime ELSE @,
       !.tr.m_remainingStepTime = 0,
       !.tr.delayTimer = IF s2.tr.m_remainingDelayTime > 0
                         THEN s2.tr.m_remainingDelayTime ELSE @,
       !.tr.m_remainingDelayTime = 0,
       !.tr.measurementTimer =
           IF s2.tr.m_remainingMeasurementTime > 0
           THEN s2.tr.m_remainingMeasurementTime ELSE @,
       !.tr.m_remainingMeasurementTime = 0,
       !.tr.ackTimer = IF s2.tr.m_remainingAckTime > 0
                       THEN s2.tr.m_remainingAckTime ELSE @,
       !.tr.m_remainingAckTime = 0]

\* timers restarted, and the next action scheduled when no action timer was
resumeTail(s2) ==
    IF ~(\/ s2.tr.m_remainingDelayTime > 0
         \/ s2.tr.m_remainingMeasurementTime > 0
         \/ s2.tr.m_remainingAckTime > 0)
       /\ s2.tr.m_prePauseState = "Running"
    THEN singleShot(resumeTimers(s2), 0)
    ELSE resumeTimers(s2)

\* the measurement wait re-armed after the start-detection call
resumePre(c, pre) ==
    IF pre = "WaitingForMeasurement"
    THEN [c EXCEPT !.tr.m_waitingForMeasurement = TRUE]
    ELSE c

resumeState(s1) == setState(s1, s1.tr.m_prePauseState)

resume(s, w) ==
    IF s.tr.m_state # "Paused" THEN s
    ELSE IF s.tr.m_isDetectionActive
    THEN resumeTail(resumeState(resumePre(
            invoke(s, Call("startExternalMeterDetection", 0, 0, <<>>), w, 1),
            s.tr.m_prePauseState)))
    ELSE resumeTail(resumeState(s))

\* a stop() that leaves the measurement wait and its timer in place
stopKeepingMeasurement(s, w) ==
    IF s.tr.m_state \in {"Idle", "Finished", "Aborted"} THEN s
    ELSE LET s1 == [s EXCEPT !.tr.delayTimer = -1,
                             !.tr.stepTimer = -1, !.tr.ackTimer = -1]
             s2 == IF s1.tr.m_isDetectionActive
                   THEN invoke(s1, Call("stopExternalMeterDetection",
                                         0, 0, <<>>), w, 1)
                   ELSE s1
         IN  setState([s2 EXCEPT !.tr.m_isDetectionActive = FALSE],
                      "Aborted")

stop(s, w) ==
    IF s.tr.m_state \in {"Idle", "Finished", "Aborted"} THEN s
    ELSE LET s1 == [s EXCEPT !.tr.delayTimer = -1, !.tr.measurementTimer = -1,
                             !.tr.stepTimer = -1, !.tr.ackTimer = -1]
             s2 == IF s1.tr.m_isDetectionActive
                   THEN invoke(s1, Call("stopExternalMeterDetection",
                                         0, 0, <<>>), w, 1)
                   ELSE s1
         IN  setState([s2 EXCEPT !.tr.m_waitingForMeasurement = FALSE,
                                 !.tr.m_isDetectionActive = FALSE],
                      "Aborted")

\* a userConfirm that answers whatever the runner is doing
userConfirmAnyState(s, confirmed) ==
    IF confirmed
    THEN singleShot(setState(s, "Running"), kActionDelayMs)
    ELSE finishCurrentStep(
             actionFinished(recordError(s, "UserRejected"), "UserRejected"),
             FALSE)

userConfirm(s, confirmed) ==
    IF s.tr.m_state # "WaitingForUser" THEN s
    ELSE IF confirmed
    THEN singleShot(setState(s, "Running"), kActionDelayMs)
    ELSE finishCurrentStep(
             actionFinished(recordError(s, "UserRejected"), "UserRejected"),
             FALSE)

onDelayFinished(s) ==
    LET s0 == [s EXCEPT !.tr.delayTimer = -1]
    IN  IF s0.tr.m_state # "Running" THEN s0
        ELSE singleShot(actionFinished(s0, "Success"), 0)

onMeasurementTimeout(s) ==
    LET s0 == [s EXCEPT !.tr.measurementTimer = -1]
    IN  IF ~s0.tr.m_waitingForMeasurement THEN s0
        ELSE LET s1 == [s0 EXCEPT !.tr.m_waitingForMeasurement = FALSE]
                 s2 == recordError(s1, "MeasurementTimeout")
             IN  finishCurrentStep(actionFinished(s2, "Timeout"), FALSE)

\* a step timeout that gives the whole run up
onStepTimeoutAborting(s) ==
    setState([s EXCEPT !.tr.stepTimer = -1], "Aborted")

\* a step timeout that fails the step without recording an error
onStepTimeoutUnrecorded(s) ==
    LET s0 == [s EXCEPT !.tr.stepTimer = -1]
    IN  IF s0.tr.m_state \in {"Idle", "Finished", "Aborted"} THEN s0
        ELSE finishCurrentStep(s0, FALSE)

onStepTimeout(s) ==
    LET s0 == [s EXCEPT !.tr.stepTimer = -1]
    IN  IF s0.tr.m_state \in {"Idle", "Finished", "Aborted"} THEN s0
        ELSE finishCurrentStep(recordError(s0, "StepTimeout"), FALSE)

\* an ack timeout that fails the step without recording an error
onAckTimeoutUnrecorded(s) ==
    LET s0 == [s EXCEPT !.tr.ackTimer = -1]
    IN  IF s0.tr.m_state = "WaitingForPauseAck" THEN setState(s0, "Paused")
        ELSE IF s0.tr.m_state # "WaitingForAck" THEN s0
        ELSE finishCurrentStep(actionFinished(s0, "Timeout"), FALSE)

onAckTimeout(s) ==
    LET s0 == [s EXCEPT !.tr.ackTimer = -1]
    IN  IF s0.tr.m_state = "WaitingForPauseAck" THEN setState(s0, "Paused")
        ELSE IF s0.tr.m_state # "WaitingForAck" THEN s0
        ELSE LET s1 == recordError(s0, "AckTimeout")
             IN  finishCurrentStep(actionFinished(s1, "Timeout"), FALSE)

(***************************************************************************)
(* Inputs                                                                  *)
(***************************************************************************)
\* telemetry frames 0x50 + float: 3.0 mA and 7.0 mA
TelemetryLow == <<80, 0, 0, 64, 64>>
TelemetryHigh == <<80, 0, 0, 224, 64>>

\* the step lists a run is started with
StepLists ==
    { <<StepSpec(<<SubAction("StartDetection", 0, 0, TRUE),
                   SubAction("CheckCurrent", 5, 0, TRUE),
                   SubAction("UserConfirm", 0, 0, TRUE),
                   SubAction("Delay", 100, 0, TRUE)>>, 12000),
        StepSpec(<<SubAction("SetV1Voltage", 1, 220, TRUE),
                   SubAction("PauseDetection", 0, 0, TRUE)>>, 12000)>> }

\* the calls the operator console makes on the DeviceController
ConsoleCalls ==
    { Call("powerOn", 0, 0, <<>>),
      Call("setV123VoltageControl", 1, 220, <<>>),
      Call("setV123VoltageControl", 4, 220, <<>>),
      Call("startExternalMeterDetection", 0, 0, <<>>),
      Call("stopExternalMeterDetection", 0, 0, <<>>),
      Call("sendTestCommand", 0, 0, <<7>>) }

\* calls whose parameters fail the range checks: channel not 1..3, voltage
\* outside 1.2..5.0 V (V123) or 1.60..10.80 V (V4), step direction not 1 or
\* 2, V4 channel id not 4
InvalidCalls ==
    { Call("setV123VoltageControl", 4, 220, <<>>),
      Call("setV123VoltageControl", 0, 220, <<>>),
      Call("setV123VoltageControl", 1, 110, <<>>),
      Call("setV123VoltageControl", 1, 510, <<>>),
      Call("setV4VoltageControl", 0, 150, <<>>),
      Call("setV4VoltageControl", 0, 1090, <<>>),
      Call("v123StepAdjust", 4, 1, <<>>),
      Call("v123StepAdjust", 1, 3, <<>>),
      Call("v4StepAdjust", 0, 0, <<>>),
      Call("openVoltageChannel", 4, 4, <<>>),
      Call("openVoltageChannel", 1, 3, <<>>),
      Call("openV123Channel", 0, 0, <<>>) }

(***************************************************************************)
(* State machine                                                           *)
(***************************************************************************)
Sys == [port |-> port, dc |-> dc, tr |-> tr, out |-> <<>>, obs |-> obs,
        ret |-> FALSE]

\* a run is observed from its start until it is Finished or Aborted
RunOpen == tr.m_state \notin {"Finished", "Aborted"}

\* the objects as a handler leaves them
Write(s) ==
    /\ Len(s.tr.dispatch) <= MaxDispatch
    /\ port' = s.port
    /\ dc' = s.dc
    /\ tr' = s.tr
    /\ out' = s.out
    /\ obs' = s.obs

Step(s) == RunOpen /\ Write(s)

\* a handler run after the run has ended
After(s) == ~RunOpen /\ Write(s) /\ pauses' = pauses

Apply(s) == Step(s) /\ pauses' = pauses

\* rx: the bytes received by the serial port and not yet read
InitPort == [m_isOpen |-> FALSE, parity |-> "Space", rx |-> <<>>]

InitDc == [m_isConnected |-> FALSE, m_pendingCommand |-> "None",
           m_sentData |-> <<>>, m_expectedResponse |-> <<>>,
           m_receivedBuffer |-> <<>>, m_measureDataBuffer |-> <<>>,
           m_retryCount |-> 0, confTimer |-> -1]

\* the runner as its constructor leaves it
InitTr ==
    [m_state |-> "Idle", m_currentStepIndex |-> -1,
     m_currentActionIndex |-> -1,
     delayTimer |-> -1, measurementTimer |-> -1, stepTimer |-> -1,
     ackTimer |-> -1,
     m_pendingCurrentThreshold |-> 0, m_pendingIsUpperLimit |-> TRUE,
     m_waitingForMeasurement |-> FALSE, m_isDetectionActive |-> FALSE,
     m_remainingStepTime |-> 0, m_remainingDelayTime |-> 0,
     m_remainingMeasurementTime |-> 0, m_remainingAckTime |-> 0,
     m_prePauseState |-> "Idle",
     m_steps |-> <<>>, m_stepResults |-> <<>>,
     m_errorRecords |-> <<>>, dispatch |-> <<>>]

InitObs == [txLog |-> <<>>, expiries |-> 0, resolved |-> 0,
            cancelled |-> FALSE, late |-> FALSE, resendFailed |-> FALSE]

\* the test window as constructed: it creates the runner and loads the
\* step list into it; the port is not yet opened
Init ==
    /\ port = InitPort
    /\ dc = InitDc
    /\ \E steps \in StepLists : tr = loadSteps([tr |-> InitTr], steps).tr
    /\ out = <<>>
    /\ obs = InitObs
    /\ pauses = 0

\* the console alone: no step list is loaded, the runner stays Idle
InitLink ==
    /\ port = InitPort
    /\ dc = InitDc
    /\ tr = InitTr
    /\ out = <<>>
    /\ obs = InitObs
    /\ pauses = 0

\* ---- time ----
ActiveTimers ==
    {x \in {dc.confTimer, tr.delayTimer, tr.measurementTimer, tr.stepTimer,
            tr.ackTimer} : IsActive(x)}
    \cup {tr.dispatch[i] : i \in 1..Len(tr.dispatch)}

Elapse(x, d) == IF IsActive(x) THEN x - d ELSE x

Elapsed(d) ==
    /\ \A x \in ActiveTimers : d <= x
    /\ dc' = [dc EXCEPT !.confTimer = Elapse(@, d)]
    /\ tr' = [tr EXCEPT !.delayTimer = Elapse(@, d),
                        !.measurementTimer = Elapse(@, d),
                        !.stepTimer = Elapse(@, d),
                        !.ackTimer = Elapse(@, d),
                        !.dispatch = [i \in 1..Len(@) |-> @[i] - d]]
    /\ out' = <<>>
    /\ UNCHANGED <<port, obs, pauses>>

Advance(d) == RunOpen /\ Elapsed(d)

\* time passes until the next timer is due; a due timer fires before time
\* passes again
Tick ==
    /\ ActiveTimers # {}
    /\ \A x \in ActiveTimers : x > 0
    /\ \E d \in ActiveTimers : Advance(d)

\* time passes, but less than to the next expiry
PartialElapse ==
    /\ ActiveTimers # {}
    /\ \A x \in ActiveTimers : x > PartialTick
    /\ Advance(PartialTick)

\* ---- SerialPortService / DeviceController events ----
\* the operator opens the port before a run is started
Connect ==
    /\ ~dc.m_isConnected
    /\ tr.m_state = "Idle"
    /\ Apply(connectToDevice(Sys))

Disconnect == dc.m_isConnected /\ Apply(disconnectDevice(Sys))

\* a fatal serial error: onErrorOccurred closes the port
PortLost == port.m_isOpen /\ Apply(closePort(Sys))

DataArrive(chunks) ==
    /\ port.m_isOpen
    /\ \E data \in chunks :
         /\ Len(data) + (IF dc.m_pendingCommand # "None"
                         THEN Len(dc.m_receivedBuffer)
                         ELSE Len(dc.m_measureDataBuffer)) <= MaxBuf
         /\ Apply(onSerialDataReceived(Sys, data))

\* what the device and the meter may put on the wire: a telemetry frame at
\* any time and, while a command is pending, its confirmation, alone or
\* with a telemetry frame right behind it
ConsoleChunks ==
    {TelemetryLow}
    \cup (IF dc.m_pendingCommand # "None"
          THEN {dc.m_expectedResponse, dc.m_expectedResponse \o TelemetryLow}
          ELSE {})

BenchChunks ==
    {TelemetryLow}
    \cup (IF tr.m_waitingForMeasurement THEN {TelemetryHigh} ELSE {})
    \cup (IF dc.m_pendingCommand # "None"
          THEN {dc.m_expectedResponse} ELSE {})

ConsoleDataArrive == DataArrive(ConsoleChunks)

BenchDataArrive == DataArrive(BenchChunks)

ConfirmationTimeout ==
    /\ dc.confTimer = 0
    /\ \E w \in WriteOutcomes : Apply(onCommandConfirmationTimeout(Sys, w))

CancelPending == Apply(cancelPendingCommand(Sys))

ConsoleCommand ==
    \E c \in ConsoleCalls, w \in WriteOutcomes : Apply(invoke(Sys, c, w, 0))

IapJump == \E w \in WriteOutcomes : Apply(sendIapJumpCommand(Sys, w))

\* the write outcomes met during a run: written, or the data bytes not
\* written or flushed in time
BenchWrites == {"ok", "dataFail"}

\* ---- TestSequenceRunner events ----
\* the operator starts one run, with the port open
Start == tr.m_state = "Idle" /\ dc.m_isConnected /\ Apply(start(Sys))

Pause ==
    /\ pauses < MaxPauses
    /\ \E w \in BenchWrites : Step(pause(Sys, w))
    /\ pauses' = IF tr.m_state \in {"Running", "WaitingForMeasurement",
                                     "WaitingForAck"}
                 THEN pauses + 1 ELSE pauses

Resume == \E w \in BenchWrites : Apply(resume(Sys, w))

Stop == \E w \in BenchWrites : Apply(stop(Sys, w))

UserConfirm == \E confirmed \in BOOLEAN : Apply(userConfirm(Sys, confirmed))

DelayFinished == tr.delayTimer = 0 /\ Apply(onDelayFinished(Sys))

MeasurementTimeout ==
    tr.measurementTimer = 0 /\ Apply(onMeasurementTimeout(Sys))

StepTimeout == tr.stepTimer = 0 /\ Apply(onStepTimeout(Sys))

AckTimeout == tr.ackTimer = 0 /\ Apply(onAckTimeout(Sys))

\* a deferred executeNextAction call comes due
Dispatch ==
    \E i \in 1..Len(tr.dispatch), w \in BenchWrites :
        /\ tr.dispatch[i] = 0
        /\ LET s == Sys
               rest == SubSeq(tr.dispatch, 1, i - 1)
                       \o SubSeq(tr.dispatch, i + 1, Len(tr.dispatch))
           IN  Apply(executeNextAction([s EXCEPT !.tr.dispatch = rest], w))

NextLink ==
    \/ Connect
    \/ Disconnect
    \/ PortLost
    \/ ConsoleDataArrive
    \/ ConfirmationTimeout
    \/ CancelPending
    \/ ConsoleCommand
    \/ IapJump
    \/ Tick
    \/ PartialElapse

Next ==
    \/ Connect
    \/ PortLost
    \/ BenchDataArrive
    \/ ConfirmationTimeout
    \/ Start
    \/ Pause
    \/ Resume
    \/ Stop
    \/ UserConfirm
    \/ DelayFinished
    \/ MeasurementTimeout
    \/ StepTimeout
    \/ AckTimeout
    \/ Dispatch
    \/ Tick

(***************************************************************************)
(* Runs of short step lists, observed beyond their end: after Finished or  *)
(* Aborted the link still receives, retries and resolves, and deferred     *)
(* executeNextAction calls still come due.                                 *)
(***************************************************************************)
\* telemetry frames 0x50 + float: 3.2 mA and 5.0 mA
Telemetry32 == <<80, 205, 204, 76, 64>>
TelemetryEdge == <<80, 0, 0, 160, 64>>

UnitStepLists ==
    { <<StepSpec(<<SubAction("Delay", 100, 0, TRUE)>>, 12000)>>,
      <<StepSpec(<<SubAction("StartDetection", 0, 0, TRUE),
                   SubAction("CheckCurrent", 5, 0, TRUE)>>, 3000),
        StepSpec(<<SubAction("UserConfirm", 0, 0, TRUE),
                   SubAction("Delay", 100, 0, TRUE)>>, 12000)>>,
      <<StepSpec(<<SubAction("CheckCurrent", 5, 0, FALSE),
                   SubAction("SetV1Voltage", 1, 220, TRUE)>>, 12000),
        StepSpec(<<SubAction("Delay", 100, 0, TRUE)>>, 12000)>> }

InitUnit ==
    /\ port = InitPort
    /\ dc = InitDc
    /\ \E steps \in UnitStepLists : tr = loadSteps([tr |-> InitTr], steps).tr
    /\ out = <<>>
    /\ obs = InitObs
    /\ pauses = 0

UnitChunks ==
    (IF tr.m_state = "WaitingForMeasurement"
     THEN {Telemetry32, TelemetryEdge, TelemetryHigh} ELSE {TelemetryLow})
    \cup (IF dc.m_pendingCommand # "None"
          THEN {dc.m_expectedResponse} ELSE {})

UnitDataArrive == DataArrive(UnitChunks)

LateDataArrive ==
    /\ port.m_isOpen
    /\ \E data \in UnitChunks :
         /\ Len(data) + (IF dc.m_pendingCommand # "None"
                         THEN Len(dc.m_receivedBuffer)
                         ELSE Len(dc.m_measureDataBuffer)) <= MaxBuf
         /\ After(onSerialDataReceived(Sys, data))

LateConfirmationTimeout ==
    /\ dc.confTimer = 0
    /\ \E w \in BenchWrites : After(onCommandConfirmationTimeout(Sys, w))

LateDispatch ==
    \E i \in 1..Len(tr.dispatch), w \in BenchWrites :
        /\ tr.dispatch[i] = 0
        /\ LET s == Sys
               rest == SubSeq(tr.dispatch, 1, i - 1)
                       \o SubSeq(tr.dispatch, i + 1, Len(tr.dispatch))
           IN  After(executeNextAction([s EXCEPT !.tr.dispatch = rest], w))

LateTick ==
    /\ ~RunOpen
    /\ ActiveTimers # {}
    /\ \A x \in ActiveTimers : x > 0
    /\ \E d \in ActiveTimers : Elapsed(d)

NextUnit ==
    \/ Connect
    \/ PortLost
    \/ UnitDataArrive
    \/ ConfirmationTimeout
    \/ Start
    \/ Pause
    \/ Resume
    \/ Stop
    \/ UserConfirm
    \/ DelayFinished
    \/ MeasurementTimeout
    \/ StepTimeout
    \/ AckTimeout
    \/ Dispatch
    \/ Tick
    \/ LateDataArrive
    \/ LateConfirmationTimeout
    \/ LateDispatch
    \/ LateTick

\* the operator console driving the Command Link
SpecLink == InitLink /\ [][NextLink]_vars

\* the same with the event loop running: time passes up to the next expiry
\* of an armed timer, and the timeout of a due confirmation timer is
\* delivered
SpecLinkFair ==
    SpecLink /\ WF_vars(Tick) /\ WF_vars(ConfirmationTimeout)

\* a test run of the TestSequenceRunner over the Command Link
Spec == Init /\ [][Next]_vars

\* runs of the short step lists, with what follows their end
SpecUnit == InitUnit /\ [][NextUnit]_vars

\* a run of a step whose Delay action is followed by further actions
InitGap ==
    /\ port = InitPort
    /\ dc = InitDc
    /\ tr = loadSteps([tr |-> InitTr],
                      <<StepSpec(<<SubAction("Delay", 100, 0, TRUE),
                                   SubAction("StartDetection", 0, 0, TRUE),
                                   SubAction("CheckCurrent", 5, 0, TRUE)>>,
                                 12000),
                        StepSpec(<<SubAction("UserConfirm", 0, 0, TRUE)>>,
                                 12000)>>).tr
    /\ out = <<>>
    /\ obs = InitObs
    /\ pauses = 0

SpecGap == InitGap /\ [][NextUnit]_vars

\* a run of a step whose step timeout is as long as its Delay action, with a
\* UserConfirm after the Delay
InitHold ==
    /\ port = InitPort
    /\ dc = InitDc
    /\ tr = loadSteps([tr |-> InitTr],
                      <<StepSpec(<<SubAction("Delay", 100, 0, TRUE),
                                   SubAction("UserConfirm", 0, 0, TRUE)>>,
                                 100),
                        StepSpec(<<SubAction("StartDetection", 0, 0, TRUE),
                                   SubAction("CheckCurrent", 5, 0, TRUE)>>,
                                 12000)>>).tr
    /\ out = <<>>
    /\ obs = InitObs
    /\ pauses = 0

SpecHold == InitHold /\ [][NextUnit]_vars

\* the same with the event loop running: time passes up to the next expiry,
\* the timeout of every due timer and every due deferred executeNextAction
\* call is delivered, and the operator does not leave a run paused for ever
SpecHoldFair ==
    /\ SpecHold
    /\ WF_vars(Tick)
    /\ WF_vars(ConfirmationTimeout)
    /\ WF_vars(DelayFinished)
    /\ WF_vars(MeasurementTimeout)
    /\ WF_vars(StepTimeout)
    /\ WF_vars(AckTimeout)
    /\ WF_vars(Dispatch)
    /\ WF_vars(tr.m_state = "Paused" /\ (Resume \/ Stop))

\* DeviceProtocol::encodeVoltage applied to a voltage of
\* hi * 2^31 tenths + cv hundredths of a volt
Encode ==
    \E v \in [hi : {0}, cv : (-MaxOver)..(1000 + MaxOver)]
              \cup [hi : {-2, -1, 1, 2}, cv : {10, 550}] :
      \E b \in encodeVoltageOutcomes(v.hi, v.cv) :
        /\ out' = <<Event("encodeVoltage", "", TRUE, v.hi, v.cv, <<b>>)>>
        /\ UNCHANGED <<port, dc, tr, obs, pauses>>

\* the voltage encoder over its inputs
SpecEncode == InitLink /\ [][Encode]_vars

\* DeviceProtocol::encodeV4Voltage applied to a voltage of cv hundredths of
\* a volt, with the verdict of the validation of setV4VoltageControl
EncodeV4 ==
    \E cv \in 0..(1080 + MaxOver) :
        /\ out' = <<Event("encodeV4Voltage", "", isValidVoltage(cv), 0, cv,
                          <<encodeV4Voltage(cv)>>)>>
        /\ UNCHANGED <<port, dc, tr, obs, pauses>>

\* the V4 voltage encoder over its inputs
SpecEncodeV4 == InitLink /\ [][EncodeV4]_vars

\* the port is open, the link Idle with an empty telemetry buffer, and the
\* meter has sent a stream of whole telemetry frames: 3.0 mA, 3.2 mA, or a
\* value whose bytes all equal the tag
InitTelemetry ==
    /\ \E n \in 1..MaxFrames :
         \E f \in [1..n -> {TelemetryLow, Telemetry32, <<80, 80, 80, 80, 80>>}] :
           port = [InitPort EXCEPT
                     !.m_isOpen = TRUE,
                     !.rx = [i \in 1..(5 * n) |->
                               f[((i - 1) \div 5) + 1][((i - 1) % 5) + 1]]]
    /\ dc = [InitDc EXCEPT !.m_isConnected = TRUE]
    /\ tr = InitTr
    /\ out = <<>>
    /\ obs = InitObs
    /\ pauses = 0

\* SerialPortService::onReadyRead: readAll takes the k bytes that have
\* arrived so far and dataReceived hands them to onSerialDataReceived
ReadyRead ==
    /\ port.m_isOpen
    /\ \E k \in 1..Len(port.rx) :
         Apply(onSerialDataReceived(
                   [Sys EXCEPT !.port.rx = SubSeq(@, k + 1, Len(@))],
                   SubSeq(port.rx, 1, k)))

\* the telemetry decoder fed a stream of frames in chunks
SpecTelemetry == InitTelemetry /\ [][ReadyRead]_vars

(***************************************************************************)
(* Properties                                                              *)
(***************************************************************************)
\* the positions in an event sequence o of the events of type ty
EventsOf(o, ty) == {k \in 1..Len(o) : o[k].t = ty}

\* the last step resolved a command with the given outcome
Resolved(o, success) ==
    \E k \in EventsOf(o, "commandConfirmed") : o[k].ok = success

(***************************************************************************)
(* C1.  The link holds one pending command with its timer armed, or none   *)
(* with nothing kept; and a command method called while a command awaits   *)
(* confirmation returns failure, writes no byte, and leaves the pending    *)
(* command, its sent bytes, expected response, receive buffer, retry count *)
(* and confirmation timer as they were.                                    *)
(***************************************************************************)
C1_PendingSlot ==
    IF dc.m_pendingCommand = "None"
    THEN /\ ~IsActive(dc.confTimer)
         /\ dc.m_sentData = <<>> /\ dc.m_expectedResponse = <<>>
         /\ dc.m_receivedBuffer = <<>> /\ dc.m_retryCount = 0
    ELSE /\ IsActive(dc.confTimer)
         /\ dc.m_sentData # <<>> /\ dc.m_expectedResponse # <<>>

C1_CallWhilePending ==
    (dc.m_pendingCommand # "None" /\ out' # <<>> /\ out'[1].t = "call")
    => /\ out'[Len(out')].t = "return"
       /\ ~out'[Len(out')].ok
       /\ EventsOf(out', "tx") = {}
       /\ dc' = dc

C1_OnePending == []C1_PendingSlot /\ [][C1_CallWhilePending]_vars

\* a command method was called while a command was pending, and refused
C1_Witness ==
    /\ dc.m_pendingCommand # "None"
    /\ out # <<>>
    /\ out[1].t = "call" /\ ~out[1].ok
    /\ out[Len(out)].t = "return" /\ ~out[Len(out)].ok

(***************************************************************************)
(* C2.  As claimed: a command that resolves Failure was transmitted        *)
(* exactly 3 times and resolves on the third expiry of its timer.          *)
(***************************************************************************)
C2_ThreeTransmissions ==
    Resolved(out, FALSE) =>
        (Len(obs.txLog) = kMaxRetries + 1 /\ obs.expiries = kMaxRetries + 1)

(***************************************************************************)
(* C2, amended.  The retry count never exceeds 2, a command is transmitted *)
(* at most 3 times and every retransmission repeats the first transmission *)
(* byte for byte; while it is pending it has been transmitted once per     *)
(* expiry plus once.  It resolves Failure, and the link is Idle again, on  *)
(* the third expiry after 3 transmissions, or on an earlier expiry whose   *)
(* retransmission could not be written.                                    *)
(***************************************************************************)
C2_RetryBudget ==
    /\ dc.m_retryCount <= kMaxRetries
    /\ Len(obs.txLog) <= kMaxRetries + 1
    /\ \A i \in 1..Len(obs.txLog) : obs.txLog[i] = obs.txLog[1]
    /\ dc.m_pendingCommand # "None" =>
          /\ obs.txLog[1] = dc.m_sentData
          /\ Len(obs.txLog) = dc.m_retryCount + 1
          /\ obs.expiries = dc.m_retryCount
    /\ Resolved(out, FALSE) =>
          /\ dc.m_pendingCommand = "None"
          /\ IF obs.resendFailed
             THEN Len(obs.txLog) = obs.expiries /\ obs.expiries <= kMaxRetries
             ELSE /\ Len(obs.txLog) = kMaxRetries + 1
                  /\ obs.expiries = kMaxRetries + 1

\* a command resolved Failure on its third expiry, after 3 transmissions
C2_Witness ==
    /\ Resolved(out, FALSE)
    /\ ~obs.resendFailed
    /\ Len(obs.txLog) = 3
    /\ obs.expiries = 3

(***************************************************************************)
(* C3.  commandConfirmed is emitted at most once for a command the link    *)
(* accepted, and never once the command was cancelled (by                  *)
(* cancelPendingCommand, a disconnect or the loss of the port); a step     *)
(* that emits it had the command pending and leaves the link Idle.         *)
(***************************************************************************)
C3_ResolvedOnce ==
    /\ obs.resolved <= 1
    /\ ~obs.late
    /\ ~(obs.cancelled /\ obs.resolved > 0)
    /\ EventsOf(out, "commandConfirmed") # {} =>
          /\ Cardinality(EventsOf(out, "commandConfirmed")) = 1
          /\ obs.resolved = 1
          /\ dc.m_pendingCommand = "None"

\* a command was resolved Success by its confirmation bytes
C3_Witness ==
    /\ Resolved(out, TRUE)
    /\ obs.resolved = 1
    /\ dc.m_pendingCommand = "None"

(***************************************************************************)
(* C4.  As claimed: no command with a multi-byte expected response stays   *)
(* pending once its receive buffer holds the expected bytes as a           *)
(* contiguous run at some offset.                                          *)
(***************************************************************************)
C4_MatchAtAnyOffset ==
    ~(/\ dc.m_pendingCommand # "None"
      /\ Len(dc.m_expectedResponse) >= 2
      /\ FirstRunOf(dc.m_receivedBuffer, dc.m_expectedResponse) >= 0)

\* the last step finished a step with the given result
StepFinished(o, success) ==
    \E k \in EventsOf(o, "stepFinished") : o[k].ok = success

\* the last step made the runner call stopExternalMeterDetection, which
\* returned ret
StopDetectionReturned(o, ret) ==
    \E k \in EventsOf(o, "return") :
        o[k].cmd = "stopExternalMeterDetection" /\ o[k].i = 1 /\ o[k].ok = ret

(***************************************************************************)
(* C5.  As claimed: whenever the TestSequenceRunner calls a command method *)
(* of the DeviceController (for an action, in pause(), resume() or         *)
(* stop()), no command is awaiting confirmation.                           *)
(***************************************************************************)
C5_RunnerCallsIdleLink ==
    \A k \in EventsOf(out, "call") : out[k].i = 1 => out[k].ok

(***************************************************************************)
(* C6.  As claimed: with sampling active the runner enters Paused only     *)
(* from WaitingForPauseAck, in the step that resolves its stop-detection   *)
(* command Success.                                                        *)
(***************************************************************************)
C6_EntersPaused ==
    tr'.m_state = "Paused" /\ tr.m_state # "Paused" /\ tr.m_isDetectionActive

C6_PauseStep ==
    /\ C6_EntersPaused =>
          \/ /\ tr.m_state = "WaitingForPauseAck"
             /\ \E k \in EventsOf(out', "commandConfirmed") :
                   out'[k].cmd = "StopExternalMeter"
          \/ /\ tr.m_state = "WaitingForPauseAck"
             /\ AckTimeout
             /\ EventsOf(out', "commandConfirmed") = {}
          \/ /\ Pause
             /\ StopDetectionReturned(out', FALSE)
    /\ (Pause /\ StopDetectionReturned(out', TRUE)) =>
          /\ tr'.m_state = "WaitingForPauseAck"
          /\ tr'.ackTimer = kDefaultAckTimeoutMs
    /\ tr.m_state = "WaitingForPauseAck" =>
          tr'.m_state \in {"WaitingForPauseAck", "Paused", "Aborted"}

C7_FailedStepAdvances ==
    StepFinished(out', FALSE) =>
        IF tr.m_currentStepIndex + 1 < Len(tr.m_steps)
        THEN /\ tr'.m_currentStepIndex = tr.m_currentStepIndex + 1
             /\ tr'.m_currentActionIndex = -1
             /\ tr'.m_state = "Running"
             /\ \E k \in EventsOf(out', "stepStarted") :
                   out'[k].i = tr.m_currentStepIndex + 1
             /\ tr'.stepTimer =
                   tr.m_steps[tr.m_currentStepIndex + 2].stepTimeoutMs
             /\ tr'.dispatch # <<>>
             /\ tr'.dispatch[Len(tr'.dispatch)] = kActionDelayMs
        ELSE /\ tr'.m_state = "Finished"
             /\ EventsOf(out', "sequenceFinished") # {}

C7_FailedStepNeverHalts == [][C7_FailedStepAdvances]_vars

\* step 0 failed and step 1 was started by the same step of the program
C7_Witness ==
    /\ \E k \in EventsOf(out, "stepFinished") : ~out[k].ok /\ out[k].i = 0
    /\ tr.m_currentStepIndex = 1
    /\ tr.m_state = "Running"
    /\ tr.m_errorRecords # <<>>

(***************************************************************************)
(* C8.  The runner enters Aborted only in a stop() call.                   *)
(***************************************************************************)
C8_AbortedOnlyByStop ==
    [][(tr'.m_state = "Aborted" /\ tr.m_state # "Aborted") => Stop]_vars

\* stop() has aborted a run in which a step had failed before
C8_Witness ==
    /\ tr.m_state = "Aborted"
    /\ \E k \in EventsOf(out, "stateChanged") : out[k].cmd = "Aborted"
    /\ tr.m_errorRecords # <<>>

(***************************************************************************)
(* C9.  As claimed: when the write of a device-facing action's command     *)
(* fails at dispatch, the step records exactly one ErrorRecord, the        *)
(* current step finishes failed, and the action is not reported as         *)
(* finished with Success.                                                  *)
(***************************************************************************)
C9_SendFailureFailsStep ==
    [][(/\ EventsOf(out', "actionStarted") # {}
        /\ \E k \in EventsOf(out', "tx") : ~out'[k].ok)
       => /\ Len(tr'.m_errorRecords) = Len(tr.m_errorRecords) + 1
          /\ StepFinished(out', FALSE)
          /\ ~\E k \in EventsOf(out', "actionFinished") : out'[k].ok]_vars

(***************************************************************************)
(* C10.  As claimed: once the port has been lost during a run, no command  *)
(* is resolved (the pending one was cancelled silently), no further step   *)
(* is started and no step is reported as passed.                           *)
(***************************************************************************)
C10_RunHaltsOnPortLoss ==
    [][(~port.m_isOpen /\ tr.m_state # "Idle")
       => /\ EventsOf(out', "commandConfirmed") = {}
          /\ EventsOf(out', "stepStarted") = {}
          /\ ~StepFinished(out', TRUE)]_vars

(***************************************************************************)
(* C11.  As claimed: stop() called while a command of the runner awaits    *)
(* confirmation leaves the link with no pending command and delivers no    *)
(* resolution; and in Aborted a command accepted before the stop() is      *)
(* neither retransmitted nor resolved.                                     *)
(***************************************************************************)
C11_StopStep ==
    /\ (Stop /\ tr.m_state \notin {"Idle", "Finished", "Aborted"}
             /\ dc.m_pendingCommand # "None")
          => /\ dc'.m_pendingCommand = "None"
             /\ EventsOf(out', "commandConfirmed") = {}
    /\ (tr.m_state = "Aborted"
        /\ dc.m_pendingCommand \notin {"None", "StopExternalMeter"})
          => /\ EventsOf(out', "tx") = {}
             /\ EventsOf(out', "commandConfirmed") = {}

C11_StopCancelsPending == [][C11_StopStep]_vars

\* the states in which pause() is legal
PauseLegal == tr.m_state \in {"Running", "WaitingForMeasurement", "WaitingForAck"}

(***************************************************************************)
(* C12.  As claimed: in every state in which pause() is legal, pause()     *)
(* followed at once by resume() leaves the runner's state, step index and  *)
(* action index as they were before the pause.                             *)
(***************************************************************************)
C12_PauseResumeRestores ==
    PauseLegal =>
        \A w1 \in BenchWrites, w2 \in BenchWrites :
            LET r == resume(pause(Sys, w1), w2)
            IN  /\ r.tr.m_state = tr.m_state
                /\ r.tr.m_currentStepIndex = tr.m_currentStepIndex
                /\ r.tr.m_currentActionIndex = tr.m_currentActionIndex

\* the four timers of the runner s
Timers(s) == <<s.tr.stepTimer, s.tr.delayTimer, s.tr.measurementTimer,
               s.tr.ackTimer>>

\* the four banked remaining times of the runner s
Banked(s) == <<s.tr.m_remainingStepTime, s.tr.m_remainingDelayTime,
               s.tr.m_remainingMeasurementTime, s.tr.m_remainingAckTime>>

(***************************************************************************)
(* C13.  As claimed: a pause() that reaches Paused followed by resume()    *)
(* leaves each of the four timers as it was at the pause, active with the  *)
(* same remaining time or inactive; and between pause() and resume() the   *)
(* banked times do not change (time spent paused is not counted).          *)
(***************************************************************************)
C13_RoundTrip ==
    PauseLegal =>
        \A w1 \in BenchWrites, w2 \in BenchWrites :
            LET p == pause(Sys, w1)
            IN  p.tr.m_state = "Paused" => Timers(resume(p, w2)) = Timers(Sys)

C13_HeldWhilePaused ==
    (/\ tr.m_state \in {"Paused", "WaitingForPauseAck"}
     /\ tr'.m_state \in {"Paused", "WaitingForPauseAck"})
        => /\ Banked([tr |-> tr']) = Banked(Sys)
           /\ ~IsActive(tr'.stepTimer)
           /\ ~IsActive(tr'.delayTimer)
           /\ ~IsActive(tr'.measurementTimer)

C13_TimeBanking == []C13_RoundTrip /\ [][C13_HeldWhilePaused]_vars

\* the action of the current step the runner is executing is of this type
CurrentActionIs(type) ==
    /\ tr.m_currentStepIndex >= 0
    /\ tr.m_currentStepIndex < Len(tr.m_steps)
    /\ LET actions == tr.m_steps[tr.m_currentStepIndex + 1].actions
       IN  /\ tr.m_currentActionIndex >= 0
           /\ tr.m_currentActionIndex < Len(actions)
           /\ actions[tr.m_currentActionIndex + 1].type = type

(***************************************************************************)
(* C14.  As claimed: the delay timer is active only in Running with a      *)
(* Delay action of the current step in progress, the measurement timer     *)
(* only in WaitingForMeasurement, the ack timer only in WaitingForAck or   *)
(* WaitingForPauseAck, the step timer only in Running, WaitingForUser,     *)
(* WaitingForMeasurement or WaitingForAck.                                 *)
(***************************************************************************)
C14_TimersByState ==
    /\ IsActive(tr.delayTimer) =>
          tr.m_state = "Running" /\ CurrentActionIs("Delay")
    /\ IsActive(tr.measurementTimer) => tr.m_state = "WaitingForMeasurement"
    /\ IsActive(tr.ackTimer) =>
          tr.m_state \in {"WaitingForAck", "WaitingForPauseAck"}
    /\ IsActive(tr.stepTimer) =>
          tr.m_state \in {"Running", "WaitingForUser",
                          "WaitingForMeasurement", "WaitingForAck"}

\* C15: while the runner is Paused none of its four timers is active, and
\* every step other than resume() and stop() (a timer expiry, a measurement,
\* a command resolution, userConfirm, a deferred executeNextAction) leaves
\* the state, the step index, the action index, the step results and the
\* error records as they are.
C15_PausedStep ==
    tr.m_state = "Paused" =>
        \/ Resume
        \/ Stop
        \/ /\ tr'.m_state = "Paused"
           /\ tr'.m_currentStepIndex = tr.m_currentStepIndex
           /\ tr'.m_currentActionIndex = tr.m_currentActionIndex
           /\ tr'.m_stepResults = tr.m_stepResults
           /\ tr'.m_errorRecords = tr.m_errorRecords

C15_PausedQuiet ==
    tr.m_state = "Paused" => \A k \in 1..4 : ~IsActive(Timers(Sys)[k])

C15_PausedFrame == []C15_PausedQuiet /\ [][C15_PausedStep]_vars

\* Paused, and the last step resolved a command without a state change
C15_Witness ==
    /\ tr.m_state = "Paused"
    /\ EventsOf(out, "commandConfirmed") # {}
    /\ EventsOf(out, "stateChanged") = {}

\* the current, in tenths of a mA, that each telemetry frame of the bench
\* carries
ReferenceTenths(bytes) ==
    CASE bytes = SubSeq(TelemetryLow, 2, 5) -> 30
      [] bytes = SubSeq(Telemetry32, 2, 5) -> 32
      [] bytes = SubSeq(TelemetryEdge, 2, 5) -> 50
      [] bytes = SubSeq(TelemetryHigh, 2, 5) -> 70

\* C16: in WaitingForMeasurement the first measurement received decides the
\* CheckCurrent action and no other measurement is compared: it passes iff
\* value <= threshold for an upper limit and iff value >= threshold for a
\* lower limit; on pass the runner is Running in the same step with the next
\* action scheduled and no ErrorRecord added; on fail exactly one ErrorRecord
\* with that measured value and the threshold is appended and the step is
\* finished as failed.
C16_MeasurementStep ==
    LET ms == EventsOf(out', "externalMeasurementReceived")
        cr == EventsOf(out', "currentCheckResult")
        idx == tr.m_currentStepIndex
        th == tr.m_pendingCurrentThreshold
    IN  /\ tr.m_state # "WaitingForMeasurement" => cr = {}
        /\ (tr.m_state = "WaitingForMeasurement" /\ ms # {}) =>
             LET first == CHOOSE k \in ms : \A j \in ms : k <= j
                 bytes == out'[first].data
                 tenths == ReferenceTenths(bytes)
                 pass == IF tr.m_pendingIsUpperLimit
                         THEN tenths <= 10 * th ELSE tenths >= 10 * th
             IN  /\ Cardinality(cr) = 1
                 /\ \A k \in cr : /\ k > first
                                  /\ out'[k].data = bytes
                                  /\ out'[k].ok = pass
                 /\ pass =>
                      /\ tr'.m_state = "Running"
                      /\ tr'.m_currentStepIndex = idx
                      /\ tr'.m_currentActionIndex = tr.m_currentActionIndex
                      /\ tr'.m_errorRecords = tr.m_errorRecords
                      /\ tr'.dispatch = Append(tr.dispatch, kActionDelayMs)
                      /\ EventsOf(out', "stepFinished") = {}
                 /\ ~pass =>
                      /\ Len(tr'.m_errorRecords) = Len(tr.m_errorRecords) + 1
                      /\ SubSeq(tr'.m_errorRecords, 1, Len(tr.m_errorRecords))
                            = tr.m_errorRecords
                      /\ LET rec == tr'.m_errorRecords[Len(tr'.m_errorRecords)]
                         IN  /\ rec.stepIndex = idx
                             /\ rec.actionIndex = tr.m_currentActionIndex
                             /\ rec.thresholdValue = th
                             /\ rec.measuredValue = DecodeFloat(bytes)
                             /\ ~rec.measuredValue.nan /\ ~rec.measuredValue.neg
                             /\ rec.measuredValue.ip = tenths \div 10
                             /\ rec.measuredValue.fr = (tenths % 10 # 0)
                      /\ \E k \in EventsOf(out', "stepFinished") :
                            ~out'[k].ok /\ out'[k].i = idx
                      /\ ~tr'.m_stepResults[idx + 1]
                      /\ tr'.m_currentStepIndex = idx + 1

C16_FirstMeasurementDecides == [][C16_MeasurementStep]_vars

\* scenario B: upper limit 5.0, measurement 7.0: the check failed with an
\* ErrorRecord of measured value 7.0 and threshold 5
C16_Witness ==
    /\ \E k \in EventsOf(out, "currentCheckResult") :
           ~out[k].ok /\ out[k].data = SubSeq(TelemetryHigh, 2, 5)
    /\ tr.m_errorRecords # <<>>
    /\ LET rec == tr.m_errorRecords[Len(tr.m_errorRecords)]
       IN  /\ rec.errorType = "CurrentOutOfRange"
           /\ rec.thresholdValue = 5
           /\ rec.measuredValue.ip = 7 /\ ~rec.measuredValue.fr

\* C17: a UserConfirm action puts the runner in WaitingForUser and emits
\* userConfirmRequired; userConfirm(true) in WaitingForUser returns it to
\* Running in the same step with the next action scheduled and no record
\* added; userConfirm(false) appends exactly one ErrorRecord and finishes
\* the step as failed; userConfirm in any other state changes nothing and
\* emits nothing.
C17_ActionStep ==
    (\E k \in EventsOf(out', "actionStarted") : out'[k].cmd = "UserConfirm")
        => /\ tr'.m_state = "WaitingForUser"
           /\ EventsOf(out', "userConfirmRequired") # {}
           /\ tr'.m_errorRecords = tr.m_errorRecords

C17_Call ==
    \A confirmed \in BOOLEAN :
        LET r == userConfirm(Sys, confirmed)
            idx == tr.m_currentStepIndex
            n == Len(tr.m_errorRecords)
        IN  IF tr.m_state # "WaitingForUser"
            THEN r = Sys
            ELSE IF confirmed
            THEN /\ r.tr.m_state = "Running"
                 /\ r.tr.m_currentStepIndex = idx
                 /\ r.tr.m_currentActionIndex = tr.m_currentActionIndex
                 /\ r.tr.m_errorRecords = tr.m_errorRecords
                 /\ r.tr.m_stepResults = tr.m_stepResults
                 /\ r.tr.dispatch = Append(tr.dispatch, kActionDelayMs)
                 /\ EventsOf(r.out, "stepFinished") = {}
            ELSE /\ Len(r.tr.m_errorRecords) = n + 1
                 /\ SubSeq(r.tr.m_errorRecords, 1, n) = tr.m_errorRecords
                 /\ r.tr.m_errorRecords[n + 1].errorType = "UserRejected"
                 /\ r.tr.m_errorRecords[n + 1].stepIndex = idx
                 /\ \E k \in EventsOf(r.out, "stepFinished") :
                       ~r.out[k].ok /\ r.out[k].i = idx
                 /\ ~r.tr.m_stepResults[idx + 1]
                 /\ r.tr.m_currentStepIndex = idx + 1

C17_UserConfirm == []C17_Call /\ [][C17_ActionStep]_vars

\* the operator has just rejected a UserConfirm action
C17_Witness ==
    /\ \E k \in EventsOf(out, "actionFinished") : out[k].cmd = "UserRejected"
    /\ StepFinished(out, FALSE)
    /\ tr.m_errorRecords # <<>>
    /\ tr.m_errorRecords[Len(tr.m_errorRecords)].errorType = "UserRejected"

\* the step from tr to tr' failed the current step, and only it, with one
\* ErrorRecord of the given type, and moved the run on to the next step
FailedStepOnly(errorType) ==
    LET idx == tr.m_currentStepIndex
        n == Len(tr.m_errorRecords)
    IN  /\ Len(tr'.m_errorRecords) = n + 1
        /\ SubSeq(tr'.m_errorRecords, 1, n) = tr.m_errorRecords
        /\ tr'.m_errorRecords[n + 1].errorType = errorType
        /\ tr'.m_errorRecords[n + 1].stepIndex = idx
        /\ \E k \in EventsOf(out', "stepFinished") :
              ~out'[k].ok /\ out'[k].i = idx
        /\ \A j \in 1..Len(tr.m_stepResults) :
              tr'.m_stepResults[j] = (j # idx + 1 /\ tr.m_stepResults[j])
        /\ tr'.m_currentStepIndex = idx + 1
        /\ tr'.m_state = IF idx + 1 < Len(tr.m_steps) THEN "Running"
                         ELSE "Finished"
        /\ ~IsActive(tr'.ackTimer)

\* C18: a device-facing action whose DeviceController call returns true
\* puts the runner in WaitingForAck with the ack timer armed for
\* kDefaultAckTimeoutMs; in WaitingForAck a successful resolution stops the
\* ack timer and returns the runner to Running in the same step with the
\* next action scheduled and no record added; a failed resolution or the
\* expiry of the ack timer appends one ErrorRecord, fails the current step
\* only and moves the run to the next step (or to Finished after the last).
C18_AckStep ==
    /\ (/\ EventsOf(out', "actionStarted") # {}
        /\ \E k \in EventsOf(out', "return") : out'[k].i = 1 /\ out'[k].ok)
          => /\ tr'.m_state = "WaitingForAck"
             /\ tr'.ackTimer = kDefaultAckTimeoutMs
             /\ tr'.m_currentStepIndex = tr.m_currentStepIndex
    /\ (tr.m_state = "WaitingForAck" /\ Resolved(out', TRUE))
          => /\ tr'.m_state = "Running"
             /\ tr'.m_currentStepIndex = tr.m_currentStepIndex
             /\ tr'.m_currentActionIndex = tr.m_currentActionIndex
             /\ tr'.m_errorRecords = tr.m_errorRecords
             /\ tr'.m_stepResults = tr.m_stepResults
             /\ tr'.dispatch = Append(tr.dispatch, kActionDelayMs)
             /\ ~IsActive(tr'.ackTimer)
             /\ EventsOf(out', "stepFinished") = {}
    /\ (tr.m_state = "WaitingForAck" /\ Resolved(out', FALSE))
          => FailedStepOnly("ConfirmFailed")
    /\ (tr.m_state = "WaitingForAck" /\ AckTimeout)
          => FailedStepOnly("AckTimeout")

C18_WaitingForAck == [][C18_AckStep]_vars

\* the ack timer has just expired on a device-facing action: its step is
\* failed and the run is in the next step
C18_Witness ==
    /\ \E k \in EventsOf(out, "actionFinished") : out[k].cmd = "Timeout"
    /\ StepFinished(out, FALSE)
    /\ tr.m_errorRecords # <<>>
    /\ tr.m_errorRecords[Len(tr.m_errorRecords)].errorType = "AckTimeout"
    /\ tr.m_state = "Running"

\* the events of o that report the end of a step or of the sequence
StepAndSequenceEvents(o) ==
    SelectSeq(o, LAMBDA e : e.t \in {"stepFinished", "sequenceFinished"})

\* scenario A: one step [Delay(100 ms)]
ScenarioA == <<StepSpec(<<SubAction("Delay", 100, 0, TRUE)>>, 12000)>>

\* C19: executeNextAction on an exhausted action list finishes the step as
\* passed; the end of the last step puts the run in Finished and emits
\* sequenceFinished(allPassed, passed, total) once, with total the number
\* of steps, passed the number of steps recorded as passed and allPassed
\* iff passed = total; a Finished run emits no further sequenceFinished;
\* and the run of the single step [Delay(100)] ends with stepFinished(0,
\* true) and then sequenceFinished(true, 1, 1), which in a run that was not
\* paused come after the delay has elapsed.
C19_Exhausted ==
    (/\ tr.m_state = "Running"
     /\ tr.m_currentStepIndex < Len(tr.m_steps)
     /\ tr.m_currentActionIndex + 1
          >= Len(tr.m_steps[tr.m_currentStepIndex + 1].actions))
      => \A w \in BenchWrites :
            LET r == executeNextAction(Sys, w)
                idx == tr.m_currentStepIndex
            IN  /\ r.tr.m_stepResults[idx + 1]
                /\ \E k \in EventsOf(r.out, "stepFinished") :
                      r.out[k].ok /\ r.out[k].i = idx
                /\ r.tr.m_errorRecords = tr.m_errorRecords

C19_FinishStep ==
    LET sf == EventsOf(out', "sequenceFinished")
        last == Len(tr.m_steps) - 1
    IN  /\ (\E k \in EventsOf(out', "stepFinished") : out'[k].i = last)
              => sf # {}
        /\ tr.m_state = "Finished" => (sf = {} /\ tr'.m_state = "Finished")
        /\ sf # {} =>
             /\ Cardinality(sf) = 1
             /\ tr'.m_state = "Finished"
             /\ \A k \in sf :
                   /\ out'[k].j = Len(tr.m_steps)
                   /\ out'[k].i = Cardinality({n \in 1..Len(tr'.m_stepResults) :
                                                  tr'.m_stepResults[n]})
                   /\ out'[k].ok = (out'[k].i = out'[k].j)
        /\ (sf # {} /\ tr.m_steps = ScenarioA)
              => /\ StepAndSequenceEvents(out')
                      = << Event("stepFinished", "", TRUE, 0, 0, <<>>),
                           Event("sequenceFinished", "", TRUE, 1, 1, <<>>) >>
                 /\ pauses = 0 => (/\ ~IsActive(tr.delayTimer)
                                   /\ tr.m_currentActionIndex = 0)

C19_Tally == []C19_Exhausted /\ [][C19_FinishStep]_vars

\* the run of the single step [Delay(100)] has just finished
C19_Witness ==
    /\ tr.m_state = "Finished"
    /\ tr.m_steps = ScenarioA
    /\ pauses = 0
    /\ StepAndSequenceEvents(out)
         = << Event("stepFinished", "", TRUE, 0, 0, <<>>),
              Event("sequenceFinished", "", TRUE, 1, 1, <<>>) >>

\* the last step wrote the start-detection frame (data byte 0x50), in full
\* or not
StartDetectionSent(o) ==
    \E k \in EventsOf(o, "tx") : o[k].cmd = "data" /\ o[k].data = <<80>>

\* the command the link accepted last is a stop-detection: with the runner
\* Paused and sampling active, the one pause() sent
StopDetectionSentLast ==
    /\ obs.txLog # <<>>
    /\ obs.txLog[1] = Payload(Call("stopExternalMeterDetection", 0, 0, <<>>))

\* C20: whenever resume() runs from Paused with sampling active before the
\* pause, after pause() sent stop-detection and with the device connected,
\* it writes a start-detection command to the port, and it puts the runner
\* back in the pre-pause state without a confirmation of that command.
C20_ResumeStep ==
    (/\ Resume
     /\ tr.m_state = "Paused"
     /\ tr.m_isDetectionActive
     /\ StopDetectionSentLast
     /\ isConnected(Sys))
        => /\ StartDetectionSent(out')
           /\ tr'.m_state = tr.m_prePauseState
           /\ EventsOf(out', "commandConfirmed") = {}

C20_ResumeRestartsDetection == [][C20_ResumeStep]_vars

\* C21: start() called in Running, WaitingForUser, WaitingForMeasurement,
\* WaitingForAck or WaitingForPauseAck changes nothing and emits nothing;
\* start() accepted with a non-empty step list empties the error list, sets
\* every step result to not-passed, sets the step index to 0, enters
\* Running, arms the step timer with the timeout of step 0 and schedules the
\* first executeNextAction.
C21_StartRejectedOrResets ==
    LET r == start(Sys)
    IN  IF tr.m_state \in {"Running", "WaitingForUser",
                           "WaitingForMeasurement", "WaitingForAck",
                           "WaitingForPauseAck"}
        THEN r = Sys
        ELSE tr.m_steps # <<>> =>
               /\ r.tr.m_errorRecords = <<>>
               /\ Len(r.tr.m_stepResults) = Len(tr.m_steps)
               /\ \A n \in 1..Len(r.tr.m_stepResults) : ~r.tr.m_stepResults[n]
               /\ r.tr.m_currentStepIndex = 0
               /\ r.tr.m_currentActionIndex = -1
               /\ r.tr.m_state = "Running"
               /\ r.tr.m_steps = tr.m_steps
               /\ r.tr.stepTimer = IF tr.m_steps[1].stepTimeoutMs > 0
                                   THEN tr.m_steps[1].stepTimeoutMs
                                   ELSE kDefaultStepTimeoutMs
               /\ r.tr.dispatch = Append(tr.dispatch, 0)
               /\ \E k \in EventsOf(r.out, "stepStarted") : r.out[k].i = 0

\* start() has just been accepted: the run is in step 0 with its timer
\* armed and the first action scheduled
C21_Witness ==
    /\ \E k \in EventsOf(out, "stepStarted") : out[k].i = 0
    /\ \E k \in EventsOf(out, "stateChanged") : out[k].cmd = "Running"
    /\ tr.m_state = "Running"
    /\ tr.m_currentStepIndex = 0
    /\ tr.m_currentActionIndex = -1
    /\ IsActive(tr.stepTimer)
    /\ tr.dispatch = <<0>>
    /\ tr.m_errorRecords = <<>>

\* C22: stop() in a non-terminal state stops the four timers, clears
\* m_waitingForMeasurement and m_isDetectionActive and sets the state to
\* Aborted, without a stepFinished or sequenceFinished and without an
\* ErrorRecord; stop() in Idle, Finished or Aborted changes nothing; and
\* while the state is Aborted every event (a resolution or retry of a
\* command, a measurement, a deferred executeNextAction, userConfirm, the
\* slot of any timer) leaves it Aborted with no timer active, no
\* stepFinished or sequenceFinished emitted and no ErrorRecord appended.
C22_StopCall ==
    \A w \in BenchWrites :
        LET r == stop(Sys, w)
        IN  IF tr.m_state \in {"Idle", "Finished", "Aborted"}
            THEN r = Sys
            ELSE /\ \A k \in 1..4 : ~IsActive(Timers(r)[k])
                 /\ ~r.tr.m_waitingForMeasurement
                 /\ ~r.tr.m_isDetectionActive
                 /\ r.tr.m_state = "Aborted"
                 /\ StepAndSequenceEvents(r.out) = <<>>
                 /\ r.tr.m_errorRecords = tr.m_errorRecords
                 /\ r.tr.m_stepResults = tr.m_stepResults

C22_AbortedQuiet ==
    tr.m_state = "Aborted" =>
        /\ \A k \in 1..4 : ~IsActive(Timers(Sys)[k])
        /\ \A confirmed \in BOOLEAN : userConfirm(Sys, confirmed) = Sys
        /\ onDelayFinished(Sys).tr = tr
        /\ onMeasurementTimeout(Sys).tr = tr
        /\ onStepTimeout(Sys).tr = tr
        /\ onAckTimeout(Sys).tr = tr

C22_AbortedStep ==
    tr.m_state = "Aborted" =>
        /\ tr'.m_state = "Aborted"
        /\ StepAndSequenceEvents(out') = <<>>
        /\ tr'.m_errorRecords = tr.m_errorRecords
        /\ tr'.m_stepResults = tr.m_stepResults

C22_StopAborts ==
    /\ []C22_StopCall
    /\ []C22_AbortedQuiet
    /\ [][C22_AbortedStep]_vars

\* the run is Aborted and a command has just been resolved
C22_Witness ==
    /\ tr.m_state = "Aborted"
    /\ EventsOf(out, "commandConfirmed") # {}

\* the call that led to r returned false, wrote nothing, resolved nothing
\* and left the link and the port as they are
RejectedUntouched(r) ==
    /\ ~r.ret
    /\ EventsOf(r.out, "tx") = {}
    /\ EventsOf(r.out, "commandConfirmed") = {}
    /\ r.dc = dc
    /\ r.port = port
    /\ r.obs = obs
    /\ dc.m_pendingCommand = "None" =>
          (r.dc.m_pendingCommand = "None" /\ ~IsActive(r.dc.confTimer))

\* C23: a command method called with the device not connected, or with a
\* channel, voltage or step direction that fails its range check, returns
\* false, writes neither the address byte nor a data byte, leaves the link
\* as it is (Idle, no confirmation timer, when it was Idle) and emits no
\* commandConfirmed.
C23_ValidationFailure ==
    /\ \A c \in InvalidCalls, w \in WriteOutcomes :
          RejectedUntouched(invoke(Sys, c, w, 0))
    /\ ~isConnected(Sys) =>
          \A c \in ConsoleCalls, w \in WriteOutcomes :
              RejectedUntouched(invoke(Sys, c, w, 0))

\* connected and Idle, the console has just had setV123VoltageControl
\* refused for its channel
C23_Witness ==
    /\ isConnected(Sys)
    /\ dc.m_pendingCommand = "None"
    /\ \E k \in EventsOf(out, "call") :
          out[k].cmd = "setV123VoltageControl" /\ out[k].ok
    /\ \E k \in EventsOf(out, "return") :
          out[k].cmd = "setV123VoltageControl" /\ ~out[k].ok
    /\ EventsOf(out, "tx") = {}

\* the wire-format table: a call, the payload bytes it sends after the
\* address byte, and the response it waits for
WireRow(c, payload, response) ==
    [call |-> c, payload |-> payload, response |-> response]

WireTable ==
    { WireRow(Call("powerOn", 0, 0, <<>>), <<1, 1>>, <<1, 1>>),
      WireRow(Call("powerOff", 0, 0, <<>>), <<1, 0>>, <<1, 0>>),
      WireRow(Call("setV123VoltageControl", 1, 220, <<>>),
              <<2, 1, 34>>, <<2, 1, 34>>),
      WireRow(Call("setV123VoltageControl", 3, 500, <<>>),
              <<2, 3, 80>>, <<2, 3, 80>>),
      WireRow(Call("setV123VoltageControl", 2, 0, <<>>),
              <<2, 2, 0>>, <<2, 2, 0>>),
      WireRow(Call("setV4VoltageControl", 0, 470, <<>>),
              <<2, 4, 71>>, <<2, 4, 71>>),
      WireRow(Call("openVoltageChannel", 1, 4, <<>>),
              <<18, 1, 4>>, <<18, 1, 4>>),
      WireRow(Call("v123StepAdjust", 2, 1, <<>>), <<6, 2, 1>>, <<6, 2, 1>>),
      WireRow(Call("v4StepAdjust", 0, 2, <<>>), <<6, 4, 2>>, <<6, 4, 2>>),
      WireRow(Call("startExternalMeterDetection", 0, 0, <<>>),
              <<80>>, <<80, 170>>),
      WireRow(Call("stopExternalMeterDetection", 0, 0, <<>>),
              <<81>>, <<81, 85>>),
      WireRow(Call("pressPowerConfirmKey", 0, 0, <<>>), <<1, 3>>, <<1, 3>>),
      WireRow(Call("pressSw3Key", 0, 0, <<>>), <<1, 49>>, <<1, 49>>) }

\* the bytes written in o, in order, each with the kind of its write
Written(o) ==
    LET w == SelectSeq(o, LAMBDA e : e.t = "tx")
    IN  [k \in 1..Len(w) |-> <<w[k].cmd, w[k].data>>]

\* s is the state after a command of the row was accepted: the exact
\* response resolves it Success
ResolvesOnResponse(s, row) ==
    LET r == onSerialDataReceived([s EXCEPT !.out = <<>>], row.response)
    IN  /\ \E k \in EventsOf(r.out, "commandConfirmed") :
              r.out[k].ok /\ r.out[k].cmd = CommandOf(row.call)
        /\ r.dc.m_pendingCommand = "None"

\* C24: every command method called with valid parameters on a connected,
\* Idle link whose write succeeds writes the address byte 0xC0 and then
\* exactly the payload of the wire-format table, arms the response of the
\* table as expected response, and is resolved Success by exactly that
\* response; the bytes do not depend on the state the call is made in.
C24_WireFormat ==
    (isConnected(Sys) /\ dc.m_pendingCommand = "None") =>
        \A row \in WireTable :
            LET r == invoke(Sys, row.call, "ok", 0)
            IN  /\ r.ret
                /\ Written(r.out) = << <<"address", <<192>>>>,
                                       <<"data", row.payload>> >>
                /\ r.dc.m_sentData = row.payload
                /\ r.dc.m_expectedResponse = row.response
                /\ r.dc.m_pendingCommand = CommandOf(row.call)
                /\ ResolvesOnResponse(r, row)

\* scenario C: setV123VoltageControl(1, 2.2) has just sent 0xC0, 02 01 22
\* and waits for 02 01 22
C24_Witness ==
    /\ Written(out) = << <<"address", <<192>>>>, <<"data", <<2, 1, 34>>>> >>
    /\ dc.m_pendingCommand = "V123VoltageControl"
    /\ dc.m_expectedResponse = <<2, 1, 34>>

LinkCleared(s) ==
    /\ s.dc.m_pendingCommand = "None"
    /\ ~IsActive(s.dc.confTimer)
    /\ s.dc.m_sentData = <<>>
    /\ s.dc.m_expectedResponse = <<>>
    /\ s.dc.m_receivedBuffer = <<>>
    /\ s.dc.m_retryCount = 0

\* the call resolved nothing and wrote nothing
Unresolved(r) ==
    /\ EventsOf(r.out, "commandConfirmed") = {}
    /\ EventsOf(r.out, "tx") = {}
    /\ r.obs.resolved = obs.resolved
    /\ r.obs.txLog = obs.txLog

\* with a command pending, each of the three ways to cancel clears the
\* link and resolves nothing
C26_CancelCall ==
    dc.m_pendingCommand # "None" =>
        /\ dc.m_isConnected /\ port.m_isOpen
        /\ \A r \in {cancelPendingCommand(Sys), disconnectDevice(Sys),
                      closePort(Sys)} :
               LinkCleared(r) /\ Unresolved(r) /\ r.obs.cancelled

\* the bytes a device may still send after the cancellation
LateBytes ==
    {row.response : row \in WireTable} \cup {TelemetryLow, <<170>>, <<85>>}

\* once the command was cancelled and no other was accepted, the timer is
\* stopped, so no expiry follows, and bytes that arrive resolve nothing
C26_CancelledQuiet ==
    (obs.cancelled /\ dc.m_pendingCommand = "None") =>
        /\ LinkCleared(Sys)
        /\ \A data \in LateBytes :
               LET r == onSerialDataReceived(Sys, data)
               IN  r.dc.m_pendingCommand = "None" /\ Unresolved(r)

\* a step that accepts no new command leaves the history of the cancelled
\* command as it is: no retransmission, no expiry, no resolution
C26_CancelledStep ==
    (obs.cancelled /\ obs'.cancelled) =>
        /\ obs' = obs
        /\ EventsOf(out', "commandConfirmed") = {}

\* C26: cancelling a pending command (cancelPendingCommand, an explicit
\* disconnect, or the notification that the port closed) leaves the link
\* Idle with the timer stopped and the sent bytes, expected response,
\* receive buffer and retry count cleared, emits no commandConfirmed, and
\* afterwards no timer expiry and no late bytes resolve or retransmit the
\* cancelled command.
C26_Cancel ==
    []C26_CancelCall /\ []C26_CancelledQuiet /\ [][C26_CancelledStep]_vars

\* a disconnect has just cancelled a command that had been retransmitted
C26_Witness ==
    /\ obs.cancelled
    /\ Len(obs.txLog) >= 2
    /\ LinkCleared(Sys)
    /\ EventsOf(out, "connectionStatusChanged") # {}
    /\ EventsOf(out, "commandConfirmed") = {}

(***************************************************************************)
(* C27  Telemetry frames in any chunking                                   *)
(***************************************************************************)
\* the frames of the Measurement events of o, tag and value, in order
RECURSIVE MeasuredFrames(_)
MeasuredFrames(o) ==
    IF o = <<>> THEN <<>>
    ELSE (IF Head(o).t = "externalMeasurementReceived"
          THEN <<80>> \o Head(o).data ELSE <<>>) \o MeasuredFrames(Tail(o))

\* no whole frame is left in the telemetry buffer, and what is left is the
\* beginning of a frame
C27_NoWholeFrameLeft ==
    /\ Len(dc.m_measureDataBuffer) < 5
    /\ dc.m_measureDataBuffer # <<>> => dc.m_measureDataBuffer[1] = 80
    /\ dc.m_pendingCommand = "None"

\* a read of k bytes emits, in order, exactly the frames that the buffered
\* bytes and the k bytes complete, and keeps the rest
C27_ReadStep ==
    \E k \in 0..Len(port.rx) :
        /\ port'.rx = SubSeq(port.rx, k + 1, Len(port.rx))
        /\ MeasuredFrames(out') \o dc'.m_measureDataBuffer
               = dc.m_measureDataBuffer \o SubSeq(port.rx, 1, k)
        /\ \A i \in DOMAIN out' : out'[i].t = "externalMeasurementReceived"

\* C27: while the link is Idle every incoming byte goes to the telemetry
\* decoder; of a stream of N whole frames delivered in any chunking into
\* an empty telemetry buffer, each read emits the frames it completes, in
\* order, one event per frame, and none for a frame still incomplete, so
\* that N events have been emitted when the N frames have arrived.
C27_Telemetry == []C27_NoWholeFrameLeft /\ [][C27_ReadStep]_vars

\* the last read completed two frames at once and emptied the port:
\* 3.0 mA, then 3.2 mA
C27_Witness ==
    /\ port.rx = <<>>
    /\ dc.m_measureDataBuffer = <<>>
    /\ Len(out) = 2
    /\ out[1].t = "externalMeasurementReceived"
    /\ out[1].data = SubSeq(TelemetryLow, 2, 5)
    /\ out[2].data = SubSeq(Telemetry32, 2, 5)

(***************************************************************************)
(* C28  Every accepted command leaves AwaitingConfirmation                 *)
(***************************************************************************)
\* the link has just become Idle by a Success, by a Failure after the
\* retries were used up or a retransmission failed, or by a cancellation
C28_Left ==
    /\ dc.m_pendingCommand = "None"
    /\ ~IsActive(dc.confTimer)
    /\ \/ Resolved(out, TRUE) /\ obs.resolved = 1
       \/ /\ Resolved(out, FALSE) /\ obs.resolved = 1
          /\ obs.resendFailed \/ obs.expiries = kMaxRetries + 1
       \/ obs.cancelled /\ obs.resolved = 0

\* C28: with the event loop running, so that an armed confirmation timer
\* eventually fires, every command the link accepted is eventually
\* resolved Success, resolved Failure (retries used up or a retransmission
\* failed) or cancelled, and the link is Idle again, whatever bytes arrive.
C28_EventuallyLeaves == (dc.m_pendingCommand # "None") ~> C28_Left

\* the device stayed silent: the command was sent three times and resolved
\* Failure at the third expiry
C28_Witness ==
    /\ C28_Left
    /\ Resolved(out, FALSE)
    /\ Len(obs.txLog) = kMaxRetries + 1
    /\ obs.expiries = kMaxRetries + 1

(***************************************************************************)
(* C29  The step list of a run is immutable                                *)
(***************************************************************************)
\* C29: from start() until the run is Finished or Aborted, in every state
\* of a run in progress, Paused included, loadSteps() is rejected: it
\* leaves the step list and the step results as they are.
C29_StepListImmutable ==
    tr.m_state \in {"Running", "WaitingForUser", "WaitingForMeasurement",
                    "WaitingForAck", "WaitingForPauseAck", "Paused"} =>
        \A steps \in UnitStepLists :
            LET r == loadSteps(Sys, steps)
            IN  /\ r.tr.m_steps = tr.m_steps
                /\ r.tr.m_stepResults = tr.m_stepResults

(***************************************************************************)
(* C30  writeAddressByte: mark mode for the address byte only              *)
(***************************************************************************)
\* C30: writeAddressByte on an open port sends the one address byte and,
\* whether it returns ok or an error (short write or flush timeout), the
\* port is in space (data) mode when it returns.
C30_BackInSpaceMode ==
    port.m_isOpen =>
        \A w \in WriteOutcomes :
            LET r == writeAddressByte(Sys, kSlaveAddress, w)
            IN  /\ Written(r.out) = << <<"address", <<kSlaveAddress>>>> >>
                /\ r.port.parity = "Space"

(***************************************************************************)
(* C31  The sampling-active flag                                           *)
(***************************************************************************)
\* the StartDetection of the current action is sent and not yet resolved
C31_FalseWhileUnconfirmed ==
    (/\ tr.m_state = "WaitingForAck"
     /\ CurrentActionIs("StartDetection")
     /\ dc.m_pendingCommand = "StartDetection"
     /\ obs.resolved = 0) => ~tr.m_isDetectionActive

\* the ack of the StartDetection of the current action fails, by a Failure
\* resolution or by the ack timeout
C31_AckFailureStep ==
    (/\ tr.m_state = "WaitingForAck"
     /\ CurrentActionIs("StartDetection")
     /\ \E k \in EventsOf(out', "actionFinished") :
            out'[k].cmd \in {"Failed", "Timeout"}) => ~tr'.m_isDetectionActive

\* C31: the sampling-active flag of the runner is false while a
\* StartDetection is sent and unconfirmed, and is false after the ack of a
\* StartDetection failed, by a Failure resolution or by the ack timeout; it
\* is true only once a StartDetection was resolved Success.
C31_SamplingFlag ==
    []C31_FalseWhileUnconfirmed /\ [][C31_AckFailureStep]_vars

(***************************************************************************)
(* C32  A single-byte confirmation and the telemetry frames around it      *)
(***************************************************************************)
\* the beginnings of a telemetry frame whose last byte so far, one of the
\* four value bytes, equals e
InsideFrame(e) ==
    {<<80>> \o v \o <<e>> : v \in {<<>>, <<0>>, <<0, 0>>, <<0, 0, 64>>}}

\* the byte e on its own, ahead of a frame, and right after a whole frame
OutsideFrame(e) == {<<e>>, <<e>> \o TelemetryLow, TelemetryLow \o <<e>>}

\* C32: with a command awaiting a single-byte response e and an empty
\* receive buffer, bytes in which e occurs only as a value byte of a
\* telemetry frame (after its tag 0x50) do not resolve the command, and
\* bytes in which e stands outside any telemetry frame resolve it Success.
C32_SingleByteMatch ==
    (/\ dc.m_pendingCommand # "None"
     /\ Len(dc.m_expectedResponse) = 1
     /\ dc.m_receivedBuffer = <<>>) =>
        LET e == dc.m_expectedResponse[1]
        IN  /\ \A data \in InsideFrame(e) :
                   LET r == onSerialDataReceived(Sys, data)
                   IN  /\ r.dc.m_pendingCommand = dc.m_pendingCommand
                       /\ EventsOf(r.out, "commandConfirmed") = {}
            /\ \A data \in OutsideFrame(e) :
                   LET r == onSerialDataReceived(Sys, data)
                   IN  /\ r.dc.m_pendingCommand = "None"
                       /\ Resolved(r.out, TRUE)

(***************************************************************************)
(* C33  One action at a time, in list order                                *)
(***************************************************************************)
\* C33: within a run no action of a step is started while the action
\* before it is still in progress: with the Delay action of the current
\* step running (its delay timer active), no step of the run, whatever the
\* interleaving of pause(), resume(), step timeout and deferred
\* executeNextAction calls, starts a further action.
C33_OneActionAtATime ==
    [][(CurrentActionIs("Delay") /\ IsActive(tr.delayTimer)) =>
           EventsOf(out', "actionStarted") = {}]_vars

(***************************************************************************)
(* C34  Only the command of the current action completes it                *)
(***************************************************************************)
\* the Command the current action of the run registers with the link
OwnCommand ==
    CASE CurrentActionIs("SetV1Voltage") -> "V123VoltageControl"
      [] CurrentActionIs("StartDetection") -> "StartDetection"
      [] CurrentActionIs("PauseDetection") -> "StopExternalMeter"
      [] OTHER -> "None"

\* C34: while the runner is in WaitingForAck, a step that resolves a
\* command other than the one the current action issued (the start-
\* detection of resume(), the stop-detection of pause()) leaves the runner
\* in WaitingForAck and finishes neither the action nor the step.
C34_OnlyOwnCommand ==
    [][(/\ tr.m_state = "WaitingForAck"
        /\ \E k \in EventsOf(out', "commandConfirmed") :
               out'[k].cmd # OwnCommand) =>
           /\ tr'.m_state = "WaitingForAck"
           /\ EventsOf(out', "actionFinished") = {}
           /\ EventsOf(out', "stepFinished") = {}]_vars

(***************************************************************************)
(* C35  A confirmation that arrives while the run is Paused                *)
(***************************************************************************)
\* pause() was called in WaitingForAck of a SetV1Voltage action, and the
\* link has since resolved that command Success
C35_AckedWhilePaused ==
    /\ tr.m_state = "Paused"
    /\ tr.m_prePauseState = "WaitingForAck"
    /\ CurrentActionIs("SetV1Voltage")
    /\ dc.m_pendingCommand = "None"
    /\ obs.txLog # <<>>
    /\ obs.txLog[1] = <<2, 1, 34>>
    /\ obs.resolved = 1
    /\ ~obs.cancelled
    /\ ~obs.resendFailed
    /\ obs.expiries <= kMaxRetries

\* C35: when the Success confirmation of the pending command arrived while
\* the runner was Paused after a pause() in WaitingForAck, resume() treats
\* the action as acknowledged: the runner is Running with the next
\* executeNextAction scheduled and no ack timer left to fail the step.
C35_ConfirmationKept ==
    [][(C35_AckedWhilePaused /\ tr'.m_state \notin {"Paused", "Aborted"}) =>
           /\ tr'.m_state = "Running"
           /\ Len(tr'.dispatch) = Len(tr.dispatch) + 1
           /\ ~IsActive(tr'.ackTimer)]_vars

(***************************************************************************)
(* C36  A confirmation that arrives after a retransmission                 *)
(***************************************************************************)
\* C36: in a run without pause(), when the command of a SetV1Voltage
\* action is resolved Success after the link retransmitted it once or
\* twice, the runner treats the action as acknowledged: the step that
\* resolves the command finishes the action with Success and leaves the
\* runner Running in the same step.
C36_AckAfterRetransmission ==
    [][(/\ pauses = 0
        /\ RunOpen
        /\ dc.m_pendingCommand = "V123VoltageControl"
        /\ Len(obs.txLog) >= 2
        /\ \E k \in EventsOf(out', "commandConfirmed") :
               out'[k].cmd = "V123VoltageControl" /\ out'[k].ok) =>
           /\ \E k \in EventsOf(out', "actionFinished") :
                  out'[k].cmd = "Success"
           /\ tr'.m_state = "Running"
           /\ tr'.m_currentStepIndex = tr.m_currentStepIndex]_vars

(***************************************************************************)
(* C37  One ErrorRecord per failed step                                    *)
(***************************************************************************)
\* the number of ErrorRecords of the run whose stepIndex is i
RecordsOf(i) ==
    Cardinality({k \in DOMAIN tr.m_errorRecords :
                     tr.m_errorRecords[k].stepIndex = i})

\* C37: at every point of a run, every step finished as failed has
\* exactly one ErrorRecord with its step index, and a step finished as
\* passed, or not finished yet, has none: the number of ErrorRecords is
\* the number of failed steps.
C37_OneRecordPerFailedStep ==
    tr.m_state # "Idle" =>
        LET total == Len(tr.m_steps)
            finished == IF tr.m_currentStepIndex > total THEN total
                        ELSE tr.m_currentStepIndex
        IN  /\ \A i \in 0..(total - 1) :
                   RecordsOf(i) = IF i < finished /\ ~tr.m_stepResults[i + 1]
                                  THEN 1 ELSE 0
            /\ \A k \in DOMAIN tr.m_errorRecords :
                   tr.m_errorRecords[k].stepIndex \in 0..(total - 1)

\* every handler that finishes a step as failed appends exactly one
\* ErrorRecord, carrying the index of that step; any other handler leaves
\* the records alone, or is the start() that clears them
C37_RecordStep ==
    LET before == tr.m_errorRecords
        after == tr'.m_errorRecords
        failed == {k \in EventsOf(out', "stepFinished") : ~out'[k].ok}
    IN  IF failed = {}
        THEN \/ after = before
             \/ after = <<>> /\ tr'.m_currentStepIndex = 0
        ELSE /\ Cardinality(failed) = 1
             /\ Len(after) = Len(before) + 1
             /\ SubSeq(after, 1, Len(before)) = before
             /\ \A k \in failed : after[Len(after)].stepIndex = out'[k].i

C37_ErrorRecords ==
    []C37_OneRecordPerFailedStep /\ [][C37_RecordStep]_vars

\* a run of two steps is over with one step passed and one failed, and
\* the only ErrorRecord is that of the failed step
C37_Witness ==
    /\ tr.m_state = "Finished"
    /\ Len(tr.m_steps) = 2
    /\ \E i, j \in 0..1 :
          /\ tr.m_stepResults[i + 1]
          /\ ~tr.m_stepResults[j + 1]
          /\ Len(tr.m_errorRecords) = 1
          /\ tr.m_errorRecords[1].stepIndex = j

(***************************************************************************)
(* C38  Every run ends                                                     *)
(***************************************************************************)
\* C38: every run started by start() eventually reaches Finished or
\* Aborted, whatever the device, the meter and the user do or fail to do,
\* when every due timer and deferred dispatch is delivered and a paused
\* run is eventually resumed or stopped.
C38_RunEnds == (tr.m_state # "Idle") ~> ~RunOpen

(***************************************************************************)
(* C39  start() while Paused                                               *)
(***************************************************************************)
\* what a rejected start() must leave as it is
RunFields(r) ==
    <<r.m_state, r.m_currentStepIndex, r.m_currentActionIndex,
      r.m_stepResults, r.m_errorRecords, r.m_remainingStepTime,
      r.m_remainingDelayTime, r.m_remainingMeasurementTime,
      r.m_remainingAckTime, r.m_isDetectionActive>>

\* C39: start() called while the run is Paused is rejected: the state stays
\* Paused and the step index, action index, step results, error records,
\* banked timer durations and sampling-active flag are unchanged.
C39_StartRejectedWhilePaused ==
    tr.m_state = "Paused" => RunFields(start(Sys).tr) = RunFields(tr)

(***************************************************************************)
(* C40  V4 voltage codes                                                   *)
(***************************************************************************)
\* the V4 voltages accepted by the validation, at 0.1 V resolution
AcceptedV4Tenths ==
    {cv \in 0..1080 : isValidVoltage(cv) /\ cv % 10 = 0}

\* C40: the code byte of an accepted V4 voltage at 0.1 V resolution is the
\* code byte of no other accepted V4 voltage at that resolution.
C40_DistinctV4Codes ==
    \A i \in DOMAIN out :
        (out[i].t = "encodeV4Voltage" /\ out[i].j \in AcceptedV4Tenths) =>
            \A cv \in AcceptedV4Tenths \ {out[i].j} :
                encodeV4Voltage(cv) # out[i].data[1]

====
